---- MODULE Spec2Model ----
(***************************************************************************)
(* Model of the geometric region engine of mechanical-pdf-parser:          *)
(*   src/image_extract.py          diagram regions, merging, labels        *)
(*   src/table_layout_detection.py TableDetector._filter_outer_tables      *)
(*                                                                         *)
(* Rectangles are fitz.Rect values with integer coordinates, written as    *)
(* records [x0, y0, x1, y1]; points are records [x, y].  Where the code    *)
(* halves a coordinate (the centre of a span) the model keeps twice the    *)
(* value, and where it takes a square root (rect_distance) the model keeps *)
(* the square, so that every comparison of the code is decided exactly.    *)
(***************************************************************************)
EXTENDS Integers, Sequences, FiniteSets, TLC

VARIABLES
    pc,               \* position of the running function
    rect1, rect2,     \* rect_distance: arguments
    dist_sq,          \* rect_distance: square of the returned value
    rects,            \* merge_rects: argument rects
    threshold,        \* merge_rects: argument threshold
    merged,           \* merge_rects: local list merged
    pos,              \* merge_rects: number of elements of rects consumed
    last_hit,         \* merge_rects: index replaced by the last pass (0: appended)
    detections,       \* _filter_outer_tables: argument detections
    filtered,         \* _filter_outer_tables: local list filtered
    fi,               \* _filter_outer_tables: loop variable i (next to examine)
    components,       \* is_potential_diagram: the list passed as shapes
    is_diagram,       \* is_potential_diagram: returned value
    page,             \* the page handed to the page-level functions
    diagram_rect,     \* extract_labels_with_positions: argument diagram_rect
    label_threshold,  \* module global LABEL_DISTANCE_THRESHOLD
    labels,           \* extract_labels_with_positions: returned list
    vector_diagrams,  \* save_diagram_from_pdf: local vector_diagrams
    image_diagrams,   \* save_diagram_from_pdf: local image_diagrams
    all_diagrams,     \* save_diagram_from_pdf: local all_diagrams
    outcome,          \* save_diagram_from_pdf: what became of each region handled
    saved             \* save_diagram_from_pdf: metadata written, in order

distVars   == <<rect1, rect2, dist_sq>>
mergeVars  == <<rects, threshold, merged, pos, last_hit>>
filterVars == <<detections, filtered, fi>>
classVars  == <<components, is_diagram>>
labelVars  == <<diagram_rect, label_threshold, labels>>
pageVars   == <<page, vector_diagrams, image_diagrams, all_diagrams, outcome, saved>>
vars == <<pc, distVars, mergeVars, filterVars, classVars, labelVars, pageVars>>

(***************************************************************************)
(* Bounds of the model.                                                    *)
(***************************************************************************)
MaxCoord == 3        \* rect_distance is explored on the grid 0..MaxCoord
MaxRects == 3        \* longest input list of merge_rects
MaxDetections == 3   \* longest input list of _filter_outer_tables
MaxSpans == 2        \* most text spans of a page given to extract_labels_with_positions
MaxDrawings == 2     \* most vector drawings of a page
MaxImages == 1       \* most image blocks of a page

Max2(a, b) == IF a >= b THEN a ELSE b
Min2(a, b) == IF a <= b THEN a ELSE b
Max3(a, b, c) == Max2(a, Max2(b, c))

R(a, b, c, d) == [x0 |-> a, y0 |-> b, x1 |-> c, y1 |-> d]
P(a, b) == [x |-> a, y |-> b]

\* All sequences over S of length at most n.
SeqUpTo(S, n) == UNION {[1..m -> S] : m \in 0..n}

(***************************************************************************)
(* fitz.Rect                                                               *)
(***************************************************************************)
\* Rect.is_empty: no area.
IsEmpty(r) == r.x0 >= r.x1 \/ r.y0 >= r.y1

\* Rect.width / Rect.height
Width(r) == Max2(0, r.x1 - r.x0)
Height(r) == Max2(0, r.y1 - r.y0)

\* Rect.tl / Rect.br
TL(r) == P(r.x0, r.y0)
BR(r) == P(r.x1, r.y1)

\* Rect.intersects(x): both non-empty and the common rectangle is non-empty.
Intersects(a, b) ==
    /\ ~IsEmpty(a)
    /\ ~IsEmpty(b)
    /\ Max2(a.x0, b.x0) < Min2(a.x1, b.x1)
    /\ Max2(a.y0, b.y0) < Min2(a.y1, b.y1)

\* The tight bounding box of two rectangles.
BoundingBox(a, b) ==
    R(Min2(a.x0, b.x0), Min2(a.y0, b.y0), Max2(a.x1, b.x1), Max2(a.y1, b.y1))

\* Rect.__or__ (Rect.include_rect): an empty operand is ignored.
Union(a, b) ==
    IF IsEmpty(b) THEN a
    ELSE IF IsEmpty(a) THEN b
    ELSE BoundingBox(a, b)

\* Rect.contains(point): the right and bottom edges are outside.
ContainsPoint(r, p) ==
    p.x >= r.x0 /\ p.x < r.x1 /\ p.y >= r.y0 /\ p.y < r.y1

\* Rect.contains(rect)
ContainsRect(r, s) ==
    r.x0 <= s.x0 /\ s.x0 <= s.x1 /\ s.x1 <= r.x1 /\
    r.y0 <= s.y0 /\ s.y0 <= s.y1 /\ s.y1 <= r.y1

(***************************************************************************)
(* rect_distance                                                           *)
(***************************************************************************)
\* dx and dy of rect_distance: the gaps clamped at 0.
GapX(a, b) == Max3(b.x0 - a.x1, a.x0 - b.x1, 0)
GapY(a, b) == Max3(b.y0 - a.y1, a.y0 - b.y1, 0)

\* Lines 43-45 without the 0 among the arguments of max.
rect_distance_sq_unclamped(a, b) ==
    IF Intersects(a, b) THEN 0
    ELSE Max2(b.x0 - a.x1, a.x0 - b.x1) * Max2(b.x0 - a.x1, a.x0 - b.x1)
         + Max2(b.y0 - a.y1, a.y0 - b.y1) * Max2(b.y0 - a.y1, a.y0 - b.y1)

\* Lines 43-44 measuring the gap from rect1 to rect2 only.
rect_distance_sq_onesided(a, b) ==
    IF Intersects(a, b) THEN 0
    ELSE Max2(b.x0 - a.x1, 0) * Max2(b.x0 - a.x1, 0)
         + Max2(b.y0 - a.y1, 0) * Max2(b.y0 - a.y1, 0)

\* The square of rect_distance(rect1, rect2).
rect_distance_sq(a, b) ==
    IF Intersects(a, b) THEN 0
    ELSE GapX(a, b) * GapX(a, b) + GapY(a, b) * GapY(a, b)

\* rect_distance(a, b) < t, for an integer t
DistanceBelow(a, b, t) == t > 0 /\ rect_distance_sq(a, b) < t * t

(***************************************************************************)
(* merge_rects                                                             *)
(***************************************************************************)
\* Line 55: rect.intersects(m) or rect_distance(rect, m) < threshold
Mergeable(rect, m, t) ==
    Intersects(rect, m) \/ DistanceBelow(rect, m, t)

\* The inner loop of lines 54-58: the index of the first merged rectangle the
\* incoming one qualifies for, 0 when the loop ends without a break.
FirstMatch(ms, rect, t) ==
    IF \E i \in 1..Len(ms) : Mergeable(rect, ms[i], t)
    THEN CHOOSE i \in 1..Len(ms) :
            /\ Mergeable(rect, ms[i], t)
            /\ \A j \in 1..(i - 1) : ~Mergeable(rect, ms[j], t)
    ELSE 0

\* Lines 52-60 with a new cluster put at the front of merged.
MergeOne_front(ms, rect, t) ==
    LET i == FirstMatch(ms, rect, t)
    IN  IF i = 0 THEN <<rect>> \o ms
        ELSE [ms EXCEPT ![i] = Union(ms[i], rect)]

\* One pass of the outer loop, lines 52-60.
MergeOne(ms, rect, t) ==
    LET i == FirstMatch(ms, rect, t)
    IN  IF i = 0 THEN Append(ms, rect)
        ELSE [ms EXCEPT ![i] = Union(ms[i], rect)]

\* merge_rects(rects, threshold), lines 47-61.
RECURSIVE MergeFrom(_, _, _)
MergeFrom(ms, rs, t) ==
    IF rs = <<>> THEN ms
    ELSE MergeFrom(MergeOne(ms, Head(rs), t), Tail(rs), t)

merge_rects(rs, t) == MergeFrom(<<>>, rs, t)

(***************************************************************************)
(* TableDetector._filter_outer_tables                                      *)
(***************************************************************************)
\* A detection is the tuple (x1, y1, x2, y2, score); the score is in percent.
Det(a, b, c, d, s) == [x1 |-> a, y1 |-> b, x2 |-> c, y2 |-> d, score |-> s]

\* Line 83: A fully contains B.
FullyContains(a, b) ==
    a.x1 <= b.x1 /\ a.y1 <= b.y1 /\ a.x2 >= b.x2 /\ a.y2 >= b.y2

\* The inner loop without the "if i == j: continue" of lines 78-79.
IsOuter_self(dets, i) ==
    \E j \in 1..Len(dets) : FullyContains(dets[i], dets[j])

\* The inner loop of lines 77-85: is_outer for detection i.
IsOuter(dets, i) ==
    \E j \in 1..Len(dets) : j # i /\ FullyContains(dets[i], dets[j])

\* One pass of the outer loop, lines 72-88.
FilterOne(out, dets, i) ==
    IF IsOuter(dets, i) THEN out ELSE Append(out, dets[i])

\* _filter_outer_tables(detections), lines 63-90.
RECURSIVE FilterFrom(_, _, _)
FilterFrom(out, dets, i) ==
    IF i > Len(dets) THEN out
    ELSE FilterFrom(FilterOne(out, dets, i), dets, i + 1)

filter_outer_tables(dets) == FilterFrom(<<>>, dets, 1)

(***************************************************************************)
(* Text of a span: a sequence of characters.  A character is a string: the *)
(* character itself for printable ASCII, tab, newline, form feed and       *)
(* carriage return, and the name "U+XXXX" of its code point otherwise.     *)
(***************************************************************************)
LowerCase == <<"a", "b", "c", "d", "e", "f", "g", "h", "i", "j", "k", "l", "m",
               "n", "o", "p", "q", "r", "s", "t", "u", "v", "w", "x", "y", "z">>
UpperCase == <<"A", "B", "C", "D", "E", "F", "G", "H", "I", "J", "K", "L", "M",
               "N", "O", "P", "Q", "R", "S", "T", "U", "V", "W", "X", "Y", "Z">>

\* The characters str.strip() removes: those for which str.isspace() holds.
WhiteSpace ==
    { "\t", "\n", "U+000B", "\f", "\r", "U+001C", "U+001D", "U+001E",
      "U+001F", " ", "U+0085", "U+00A0", "U+1680", "U+2000", "U+2001", "U+2002",
      "U+2003", "U+2004", "U+2005", "U+2006", "U+2007", "U+2008", "U+2009", "U+200A",
      "U+2028", "U+2029", "U+202F", "U+205F", "U+3000" }

\* str.upper() of the characters outside ASCII that it changes: the
\* character and the one to three characters it becomes.
UpperPairs ==
    { <<"U+00B5", <<"U+039C">>>>, <<"U+00DF", <<"S", "S">>>>, <<"U+00E0", <<"U+00C0">>>>,
      <<"U+00E1", <<"U+00C1">>>>, <<"U+00E2", <<"U+00C2">>>>, <<"U+00E3", <<"U+00C3">>>>,
      <<"U+00E4", <<"U+00C4">>>>, <<"U+00E5", <<"U+00C5">>>>, <<"U+00E6", <<"U+00C6">>>>,
      <<"U+00E7", <<"U+00C7">>>>, <<"U+00E8", <<"U+00C8">>>>, <<"U+00E9", <<"U+00C9">>>>,
      <<"U+00EA", <<"U+00CA">>>>, <<"U+00EB", <<"U+00CB">>>>, <<"U+00EC", <<"U+00CC">>>>,
      <<"U+00ED", <<"U+00CD">>>>, <<"U+00EE", <<"U+00CE">>>>, <<"U+00EF", <<"U+00CF">>>>,
      <<"U+00F0", <<"U+00D0">>>>, <<"U+00F1", <<"U+00D1">>>>, <<"U+00F2", <<"U+00D2">>>>,
      <<"U+00F3", <<"U+00D3">>>>, <<"U+00F4", <<"U+00D4">>>>, <<"U+00F5", <<"U+00D5">>>>,
      <<"U+00F6", <<"U+00D6">>>>, <<"U+00F8", <<"U+00D8">>>>, <<"U+00F9", <<"U+00D9">>>>,
      <<"U+00FA", <<"U+00DA">>>>, <<"U+00FB", <<"U+00DB">>>>, <<"U+00FC", <<"U+00DC">>>>,
      <<"U+00FD", <<"U+00DD">>>>, <<"U+00FE", <<"U+00DE">>>>, <<"U+00FF", <<"U+0178">>>>,
      <<"U+0101", <<"U+0100">>>>, <<"U+0103", <<"U+0102">>>>, <<"U+0105", <<"U+0104">>>>,
      <<"U+0107", <<"U+0106">>>>, <<"U+0109", <<"U+0108">>>>, <<"U+010B", <<"U+010A">>>>,
      <<"U+010D", <<"U+010C">>>>, <<"U+010F", <<"U+010E">>>>, <<"U+0111", <<"U+0110">>>>,
      <<"U+0113", <<"U+0112">>>>, <<"U+0115", <<"U+0114">>>>, <<"U+0117", <<"U+0116">>>>,
      <<"U+0119", <<"U+0118">>>>, <<"U+011B", <<"U+011A">>>>, <<"U+011D", <<"U+011C">>>>,
      <<"U+011F", <<"U+011E">>>>, <<"U+0121", <<"U+0120">>>>, <<"U+0123", <<"U+0122">>>>,
      <<"U+0125", <<"U+0124">>>>, <<"U+0127", <<"U+0126">>>>, <<"U+0129", <<"U+0128">>>>,
      <<"U+012B", <<"U+012A">>>>, <<"U+012D", <<"U+012C">>>>, <<"U+012F", <<"U+012E">>>>,
      <<"U+0131", <<"I">>>>, <<"U+0133", <<"U+0132">>>>, <<"U+0135", <<"U+0134">>>>,
      <<"U+0137", <<"U+0136">>>>, <<"U+013A", <<"U+0139">>>>, <<"U+013C", <<"U+013B">>>>,
      <<"U+013E", <<"U+013D">>>>, <<"U+0140", <<"U+013F">>>>, <<"U+0142", <<"U+0141">>>>,
      <<"U+0144", <<"U+0143">>>>, <<"U+0146", <<"U+0145">>>>, <<"U+0148", <<"U+0147">>>>,
      <<"U+0149", <<"U+02BC", "N">>>>, <<"U+014B", <<"U+014A">>>>, <<"U+014D", <<"U+014C">>>>,
      <<"U+014F", <<"U+014E">>>>, <<"U+0151", <<"U+0150">>>>, <<"U+0153", <<"U+0152">>>>,
      <<"U+0155", <<"U+0154">>>>, <<"U+0157", <<"U+0156">>>>, <<"U+0159", <<"U+0158">>>>,
      <<"U+015B", <<"U+015A">>>>, <<"U+015D", <<"U+015C">>>>, <<"U+015F", <<"U+015E">>>>,
      <<"U+0161", <<"U+0160">>>>, <<"U+0163", <<"U+0162">>>>, <<"U+0165", <<"U+0164">>>>,
      <<"U+0167", <<"U+0166">>>>, <<"U+0169", <<"U+0168">>>>, <<"U+016B", <<"U+016A">>>>,
      <<"U+016D", <<"U+016C">>>>, <<"U+016F", <<"U+016E">>>>, <<"U+0171", <<"U+0170">>>>,
      <<"U+0173", <<"U+0172">>>>, <<"U+0175", <<"U+0174">>>>, <<"U+0177", <<"U+0176">>>>,
      <<"U+017A", <<"U+0179">>>>, <<"U+017C", <<"U+017B">>>>, <<"U+017E", <<"U+017D">>>>,
      <<"U+017F", <<"S">>>>, <<"U+0180", <<"U+0243">>>>, <<"U+0183", <<"U+0182">>>>,
      <<"U+0185", <<"U+0184">>>>, <<"U+0188", <<"U+0187">>>>, <<"U+018C", <<"U+018B">>>>,
      <<"U+0192", <<"U+0191">>>>, <<"U+0195", <<"U+01F6">>>>, <<"U+0199", <<"U+0198">>>>,
      <<"U+019A", <<"U+023D">>>>, <<"U+019E", <<"U+0220">>>>, <<"U+01A1", <<"U+01A0">>>>,
      <<"U+01A3", <<"U+01A2">>>>, <<"U+01A5", <<"U+01A4">>>>, <<"U+01A8", <<"U+01A7">>>>,
      <<"U+01AD", <<"U+01AC">>>>, <<"U+01B0", <<"U+01AF">>>>, <<"U+01B4", <<"U+01B3">>>>,
      <<"U+01B6", <<"U+01B5">>>>, <<"U+01B9", <<"U+01B8">>>>, <<"U+01BD", <<"U+01BC">>>>,
      <<"U+01BF", <<"U+01F7">>>>, <<"U+01C5", <<"U+01C4">>>>, <<"U+01C6", <<"U+01C4">>>>,
      <<"U+01C8", <<"U+01C7">>>>, <<"U+01C9", <<"U+01C7">>>>, <<"U+01CB", <<"U+01CA">>>>,
      <<"U+01CC", <<"U+01CA">>>>, <<"U+01CE", <<"U+01CD">>>>, <<"U+01D0", <<"U+01CF">>>>,
      <<"U+01D2", <<"U+01D1">>>>, <<"U+01D4", <<"U+01D3">>>>, <<"U+01D6", <<"U+01D5">>>>,
      <<"U+01D8", <<"U+01D7">>>>, <<"U+01DA", <<"U+01D9">>>>, <<"U+01DC", <<"U+01DB">>>>,
      <<"U+01DD", <<"U+018E">>>>, <<"U+01DF", <<"U+01DE">>>>, <<"U+01E1", <<"U+01E0">>>>,
      <<"U+01E3", <<"U+01E2">>>>, <<"U+01E5", <<"U+01E4">>>>, <<"U+01E7", <<"U+01E6">>>>,
      <<"U+01E9", <<"U+01E8">>>>, <<"U+01EB", <<"U+01EA">>>>, <<"U+01ED", <<"U+01EC">>>>,
      <<"U+01EF", <<"U+01EE">>>>, <<"U+01F0", <<"J", "U+030C">>>>, <<"U+01F2", <<"U+01F1">>>>,
      <<"U+01F3", <<"U+01F1">>>>, <<"U+01F5", <<"U+01F4">>>>, <<"U+01F9", <<"U+01F8">>>>,
      <<"U+01FB", <<"U+01FA">>>>, <<"U+01FD", <<"U+01FC">>>>, <<"U+01FF", <<"U+01FE">>>>,
      <<"U+0201", <<"U+0200">>>>, <<"U+0203", <<"U+0202">>>>, <<"U+0205", <<"U+0204">>>>,
      <<"U+0207", <<"U+0206">>>>, <<"U+0209", <<"U+0208">>>>, <<"U+020B", <<"U+020A">>>>,
      <<"U+020D", <<"U+020C">>>>, <<"U+020F", <<"U+020E">>>>, <<"U+0211", <<"U+0210">>>>,
      <<"U+0213", <<"U+0212">>>>, <<"U+0215", <<"U+0214">>>>, <<"U+0217", <<"U+0216">>>>,
      <<"U+0219", <<"U+0218">>>>, <<"U+021B", <<"U+021A">>>>, <<"U+021D", <<"U+021C">>>>,
      <<"U+021F", <<"U+021E">>>>, <<"U+0223", <<"U+0222">>>>, <<"U+0225", <<"U+0224">>>>,
      <<"U+0227", <<"U+0226">>>>, <<"U+0229", <<"U+0228">>>>, <<"U+022B", <<"U+022A">>>>,
      <<"U+022D", <<"U+022C">>>>, <<"U+022F", <<"U+022E">>>>, <<"U+0231", <<"U+0230">>>>,
      <<"U+0233", <<"U+0232">>>>, <<"U+023C", <<"U+023B">>>>, <<"U+023F", <<"U+2C7E">>>>,
      <<"U+0240", <<"U+2C7F">>>>, <<"U+0242", <<"U+0241">>>>, <<"U+0247", <<"U+0246">>>>,
      <<"U+0249", <<"U+0248">>>>, <<"U+024B", <<"U+024A">>>>, <<"U+024D", <<"U+024C">>>>,
      <<"U+024F", <<"U+024E">>>>, <<"U+0250", <<"U+2C6F">>>>, <<"U+0251", <<"U+2C6D">>>>,
      <<"U+0252", <<"U+2C70">>>>, <<"U+0253", <<"U+0181">>>>, <<"U+0254", <<"U+0186">>>>,
      <<"U+0256", <<"U+0189">>>>, <<"U+0257", <<"U+018A">>>>, <<"U+0259", <<"U+018F">>>>,
      <<"U+025B", <<"U+0190">>>>, <<"U+025C", <<"U+A7AB">>>>, <<"U+0260", <<"U+0193">>>>,
      <<"U+0261", <<"U+A7AC">>>>, <<"U+0263", <<"U+0194">>>>, <<"U+0265", <<"U+A78D">>>>,
      <<"U+0266", <<"U+A7AA">>>>, <<"U+0268", <<"U+0197">>>>, <<"U+0269", <<"U+0196">>>>,
      <<"U+026A", <<"U+A7AE">>>>, <<"U+026B", <<"U+2C62">>>>, <<"U+026C", <<"U+A7AD">>>>,
      <<"U+026F", <<"U+019C">>>>, <<"U+0271", <<"U+2C6E">>>>, <<"U+0272", <<"U+019D">>>>,
      <<"U+0275", <<"U+019F">>>>, <<"U+027D", <<"U+2C64">>>>, <<"U+0280", <<"U+01A6">>>>,
      <<"U+0282", <<"U+A7C5">>>>, <<"U+0283", <<"U+01A9">>>>, <<"U+0287", <<"U+A7B1">>>>,
      <<"U+0288", <<"U+01AE">>>>, <<"U+0289", <<"U+0244">>>>, <<"U+028A", <<"U+01B1">>>>,
      <<"U+028B", <<"U+01B2">>>>, <<"U+028C", <<"U+0245">>>>, <<"U+0292", <<"U+01B7">>>>,
      <<"U+029D", <<"U+A7B2">>>>, <<"U+029E", <<"U+A7B0">>>>, <<"U+0345", <<"U+0399">>>>,
      <<"U+0371", <<"U+0370">>>>, <<"U+0373", <<"U+0372">>>>, <<"U+0377", <<"U+0376">>>>,
      <<"U+037B", <<"U+03FD">>>>, <<"U+037C", <<"U+03FE">>>>, <<"U+037D", <<"U+03FF">>>>,
      <<"U+0390", <<"U+0399", "U+0308", "U+0301">>>>, <<"U+03AC", <<"U+0386">>>>, <<"U+03AD", <<"U+0388">>>>,
      <<"U+03AE", <<"U+0389">>>>, <<"U+03AF", <<"U+038A">>>>, <<"U+03B0", <<"U+03A5", "U+0308", "U+0301">>>>,
      <<"U+03B1", <<"U+0391">>>>, <<"U+03B2", <<"U+0392">>>>, <<"U+03B3", <<"U+0393">>>>,
      <<"U+03B4", <<"U+0394">>>>, <<"U+03B5", <<"U+0395">>>>, <<"U+03B6", <<"U+0396">>>>,
      <<"U+03B7", <<"U+0397">>>>, <<"U+03B8", <<"U+0398">>>>, <<"U+03B9", <<"U+0399">>>>,
      <<"U+03BA", <<"U+039A">>>>, <<"U+03BB", <<"U+039B">>>>, <<"U+03BC", <<"U+039C">>>>,
      <<"U+03BD", <<"U+039D">>>>, <<"U+03BE", <<"U+039E">>>>, <<"U+03BF", <<"U+039F">>>>,
      <<"U+03C0", <<"U+03A0">>>>, <<"U+03C1", <<"U+03A1">>>>, <<"U+03C2", <<"U+03A3">>>>,
      <<"U+03C3", <<"U+03A3">>>>, <<"U+03C4", <<"U+03A4">>>>, <<"U+03C5", <<"U+03A5">>>>,
      <<"U+03C6", <<"U+03A6">>>>, <<"U+03C7", <<"U+03A7">>>>, <<"U+03C8", <<"U+03A8">>>>,
      <<"U+03C9", <<"U+03A9">>>>, <<"U+03CA", <<"U+03AA">>>>, <<"U+03CB", <<"U+03AB">>>>,
      <<"U+03CC", <<"U+038C">>>>, <<"U+03CD", <<"U+038E">>>>, <<"U+03CE", <<"U+038F">>>>,
      <<"U+03D0", <<"U+0392">>>>, <<"U+03D1", <<"U+0398">>>>, <<"U+03D5", <<"U+03A6">>>>,
      <<"U+03D6", <<"U+03A0">>>>, <<"U+03D7", <<"U+03CF">>>>, <<"U+03D9", <<"U+03D8">>>>,
      <<"U+03DB", <<"U+03DA">>>>, <<"U+03DD", <<"U+03DC">>>>, <<"U+03DF", <<"U+03DE">>>>,
      <<"U+03E1", <<"U+03E0">>>>, <<"U+03E3", <<"U+03E2">>>>, <<"U+03E5", <<"U+03E4">>>>,
      <<"U+03E7", <<"U+03E6">>>>, <<"U+03E9", <<"U+03E8">>>>, <<"U+03EB", <<"U+03EA">>>>,
      <<"U+03ED", <<"U+03EC">>>>, <<"U+03EF", <<"U+03EE">>>>, <<"U+03F0", <<"U+039A">>>>,
      <<"U+03F1", <<"U+03A1">>>>, <<"U+03F2", <<"U+03F9">>>>, <<"U+03F3", <<"U+037F">>>>,
      <<"U+03F5", <<"U+0395">>>>, <<"U+03F8", <<"U+03F7">>>>, <<"U+03FB", <<"U+03FA">>>>,
      <<"U+0430", <<"U+0410">>>>, <<"U+0431", <<"U+0411">>>>, <<"U+0432", <<"U+0412">>>>,
      <<"U+0433", <<"U+0413">>>>, <<"U+0434", <<"U+0414">>>>, <<"U+0435", <<"U+0415">>>>,
      <<"U+0436", <<"U+0416">>>>, <<"U+0437", <<"U+0417">>>>, <<"U+0438", <<"U+0418">>>>,
      <<"U+0439", <<"U+0419">>>>, <<"U+043A", <<"U+041A">>>>, <<"U+043B", <<"U+041B">>>>,
      <<"U+043C", <<"U+041C">>>>, <<"U+043D", <<"U+041D">>>>, <<"U+043E", <<"U+041E">>>>,
      <<"U+043F", <<"U+041F">>>>, <<"U+0440", <<"U+0420">>>>, <<"U+0441", <<"U+0421">>>>,
      <<"U+0442", <<"U+0422">>>>, <<"U+0443", <<"U+0423">>>>, <<"U+0444", <<"U+0424">>>>,
      <<"U+0445", <<"U+0425">>>>, <<"U+0446", <<"U+0426">>>>, <<"U+0447", <<"U+0427">>>>,
      <<"U+0448", <<"U+0428">>>>, <<"U+0449", <<"U+0429">>>>, <<"U+044A", <<"U+042A">>>>,
      <<"U+044B", <<"U+042B">>>>, <<"U+044C", <<"U+042C">>>>, <<"U+044D", <<"U+042D">>>>,
      <<"U+044E", <<"U+042E">>>>, <<"U+044F", <<"U+042F">>>>, <<"U+0450", <<"U+0400">>>>,
      <<"U+0451", <<"U+0401">>>>, <<"U+0452", <<"U+0402">>>>, <<"U+0453", <<"U+0403">>>>,
      <<"U+0454", <<"U+0404">>>>, <<"U+0455", <<"U+0405">>>>, <<"U+0456", <<"U+0406">>>>,
      <<"U+0457", <<"U+0407">>>>, <<"U+0458", <<"U+0408">>>>, <<"U+0459", <<"U+0409">>>>,
      <<"U+045A", <<"U+040A">>>>, <<"U+045B", <<"U+040B">>>>, <<"U+045C", <<"U+040C">>>>,
      <<"U+045D", <<"U+040D">>>>, <<"U+045E", <<"U+040E">>>>, <<"U+045F", <<"U+040F">>>>,
      <<"U+0461", <<"U+0460">>>>, <<"U+0463", <<"U+0462">>>>, <<"U+0465", <<"U+0464">>>>,
      <<"U+0467", <<"U+0466">>>>, <<"U+0469", <<"U+0468">>>>, <<"U+046B", <<"U+046A">>>>,
      <<"U+046D", <<"U+046C">>>>, <<"U+046F", <<"U+046E">>>>, <<"U+0471", <<"U+0470">>>>,
      <<"U+0473", <<"U+0472">>>>, <<"U+0475", <<"U+0474">>>>, <<"U+0477", <<"U+0476">>>>,
      <<"U+0479", <<"U+0478">>>>, <<"U+047B", <<"U+047A">>>>, <<"U+047D", <<"U+047C">>>>,
      <<"U+047F", <<"U+047E">>>>, <<"U+0481", <<"U+0480">>>>, <<"U+048B", <<"U+048A">>>>,
      <<"U+048D", <<"U+048C">>>>, <<"U+048F", <<"U+048E">>>>, <<"U+0491", <<"U+0490">>>>,
      <<"U+0493", <<"U+0492">>>>, <<"U+0495", <<"U+0494">>>>, <<"U+0497", <<"U+0496">>>>,
      <<"U+0499", <<"U+0498">>>>, <<"U+049B", <<"U+049A">>>>, <<"U+049D", <<"U+049C">>>>,
      <<"U+049F", <<"U+049E">>>>, <<"U+04A1", <<"U+04A0">>>>, <<"U+04A3", <<"U+04A2">>>>,
      <<"U+04A5", <<"U+04A4">>>>, <<"U+04A7", <<"U+04A6">>>>, <<"U+04A9", <<"U+04A8">>>>,
      <<"U+04AB", <<"U+04AA">>>>, <<"U+04AD", <<"U+04AC">>>>, <<"U+04AF", <<"U+04AE">>>>,
      <<"U+04B1", <<"U+04B0">>>>, <<"U+04B3", <<"U+04B2">>>>, <<"U+04B5", <<"U+04B4">>>>,
      <<"U+04B7", <<"U+04B6">>>>, <<"U+04B9", <<"U+04B8">>>>, <<"U+04BB", <<"U+04BA">>>>,
      <<"U+04BD", <<"U+04BC">>>>, <<"U+04BF", <<"U+04BE">>>>, <<"U+04C2", <<"U+04C1">>>>,
      <<"U+04C4", <<"U+04C3">>>>, <<"U+04C6", <<"U+04C5">>>>, <<"U+04C8", <<"U+04C7">>>>,
      <<"U+04CA", <<"U+04C9">>>>, <<"U+04CC", <<"U+04CB">>>>, <<"U+04CE", <<"U+04CD">>>>,
      <<"U+04CF", <<"U+04C0">>>>, <<"U+04D1", <<"U+04D0">>>>, <<"U+04D3", <<"U+04D2">>>>,
      <<"U+04D5", <<"U+04D4">>>>, <<"U+04D7", <<"U+04D6">>>>, <<"U+04D9", <<"U+04D8">>>>,
      <<"U+04DB", <<"U+04DA">>>>, <<"U+04DD", <<"U+04DC">>>>, <<"U+04DF", <<"U+04DE">>>>,
      <<"U+04E1", <<"U+04E0">>>>, <<"U+04E3", <<"U+04E2">>>>, <<"U+04E5", <<"U+04E4">>>>,
      <<"U+04E7", <<"U+04E6">>>>, <<"U+04E9", <<"U+04E8">>>>, <<"U+04EB", <<"U+04EA">>>>,
      <<"U+04ED", <<"U+04EC">>>>, <<"U+04EF", <<"U+04EE">>>>, <<"U+04F1", <<"U+04F0">>>>,
      <<"U+04F3", <<"U+04F2">>>>, <<"U+04F5", <<"U+04F4">>>>, <<"U+04F7", <<"U+04F6">>>>,
      <<"U+04F9", <<"U+04F8">>>>, <<"U+04FB", <<"U+04FA">>>>, <<"U+04FD", <<"U+04FC">>>>,
      <<"U+04FF", <<"U+04FE">>>>, <<"U+0501", <<"U+0500">>>>, <<"U+0503", <<"U+0502">>>>,
      <<"U+0505", <<"U+0504">>>>, <<"U+0507", <<"U+0506">>>>, <<"U+0509", <<"U+0508">>>>,
      <<"U+050B", <<"U+050A">>>>, <<"U+050D", <<"U+050C">>>>, <<"U+050F", <<"U+050E">>>>,
      <<"U+0511", <<"U+0510">>>>, <<"U+0513", <<"U+0512">>>>, <<"U+0515", <<"U+0514">>>>,
      <<"U+0517", <<"U+0516">>>>, <<"U+0519", <<"U+0518">>>>, <<"U+051B", <<"U+051A">>>>,
      <<"U+051D", <<"U+051C">>>>, <<"U+051F", <<"U+051E">>>>, <<"U+0521", <<"U+0520">>>>,
      <<"U+0523", <<"U+0522">>>>, <<"U+0525", <<"U+0524">>>>, <<"U+0527", <<"U+0526">>>>,
      <<"U+0529", <<"U+0528">>>>, <<"U+052B", <<"U+052A">>>>, <<"U+052D", <<"U+052C">>>>,
      <<"U+052F", <<"U+052E">>>>, <<"U+0561", <<"U+0531">>>>, <<"U+0562", <<"U+0532">>>>,
      <<"U+0563", <<"U+0533">>>>, <<"U+0564", <<"U+0534">>>>, <<"U+0565", <<"U+0535">>>>,
      <<"U+0566", <<"U+0536">>>>, <<"U+0567", <<"U+0537">>>>, <<"U+0568", <<"U+0538">>>>,
      <<"U+0569", <<"U+0539">>>>, <<"U+056A", <<"U+053A">>>>, <<"U+056B", <<"U+053B">>>>,
      <<"U+056C", <<"U+053C">>>>, <<"U+056D", <<"U+053D">>>>, <<"U+056E", <<"U+053E">>>>,
      <<"U+056F", <<"U+053F">>>>, <<"U+0570", <<"U+0540">>>>, <<"U+0571", <<"U+0541">>>>,
      <<"U+0572", <<"U+0542">>>>, <<"U+0573", <<"U+0543">>>>, <<"U+0574", <<"U+0544">>>>,
      <<"U+0575", <<"U+0545">>>>, <<"U+0576", <<"U+0546">>>>, <<"U+0577", <<"U+0547">>>>,
      <<"U+0578", <<"U+0548">>>>, <<"U+0579", <<"U+0549">>>>, <<"U+057A", <<"U+054A">>>>,
      <<"U+057B", <<"U+054B">>>>, <<"U+057C", <<"U+054C">>>>, <<"U+057D", <<"U+054D">>>>,
      <<"U+057E", <<"U+054E">>>>, <<"U+057F", <<"U+054F">>>>, <<"U+0580", <<"U+0550">>>>,
      <<"U+0581", <<"U+0551">>>>, <<"U+0582", <<"U+0552">>>>, <<"U+0583", <<"U+0553">>>>,
      <<"U+0584", <<"U+0554">>>>, <<"U+0585", <<"U+0555">>>>, <<"U+0586", <<"U+0556">>>>,
      <<"U+0587", <<"U+0535", "U+0552">>>>, <<"U+10D0", <<"U+1C90">>>>, <<"U+10D1", <<"U+1C91">>>>,
      <<"U+10D2", <<"U+1C92">>>>, <<"U+10D3", <<"U+1C93">>>>, <<"U+10D4", <<"U+1C94">>>>,
      <<"U+10D5", <<"U+1C95">>>>, <<"U+10D6", <<"U+1C96">>>>, <<"U+10D7", <<"U+1C97">>>>,
      <<"U+10D8", <<"U+1C98">>>>, <<"U+10D9", <<"U+1C99">>>>, <<"U+10DA", <<"U+1C9A">>>>,
      <<"U+10DB", <<"U+1C9B">>>>, <<"U+10DC", <<"U+1C9C">>>>, <<"U+10DD", <<"U+1C9D">>>>,
      <<"U+10DE", <<"U+1C9E">>>>, <<"U+10DF", <<"U+1C9F">>>>, <<"U+10E0", <<"U+1CA0">>>>,
      <<"U+10E1", <<"U+1CA1">>>>, <<"U+10E2", <<"U+1CA2">>>>, <<"U+10E3", <<"U+1CA3">>>>,
      <<"U+10E4", <<"U+1CA4">>>>, <<"U+10E5", <<"U+1CA5">>>>, <<"U+10E6", <<"U+1CA6">>>>,
      <<"U+10E7", <<"U+1CA7">>>>, <<"U+10E8", <<"U+1CA8">>>>, <<"U+10E9", <<"U+1CA9">>>>,
      <<"U+10EA", <<"U+1CAA">>>>, <<"U+10EB", <<"U+1CAB">>>>, <<"U+10EC", <<"U+1CAC">>>>,
      <<"U+10ED", <<"U+1CAD">>>>, <<"U+10EE", <<"U+1CAE">>>>, <<"U+10EF", <<"U+1CAF">>>>,
      <<"U+10F0", <<"U+1CB0">>>>, <<"U+10F1", <<"U+1CB1">>>>, <<"U+10F2", <<"U+1CB2">>>>,
      <<"U+10F3", <<"U+1CB3">>>>, <<"U+10F4", <<"U+1CB4">>>>, <<"U+10F5", <<"U+1CB5">>>>,
      <<"U+10F6", <<"U+1CB6">>>>, <<"U+10F7", <<"U+1CB7">>>>, <<"U+10F8", <<"U+1CB8">>>>,
      <<"U+10F9", <<"U+1CB9">>>>, <<"U+10FA", <<"U+1CBA">>>>, <<"U+10FD", <<"U+1CBD">>>>,
      <<"U+10FE", <<"U+1CBE">>>>, <<"U+10FF", <<"U+1CBF">>>>, <<"U+13F8", <<"U+13F0">>>>,
      <<"U+13F9", <<"U+13F1">>>>, <<"U+13FA", <<"U+13F2">>>>, <<"U+13FB", <<"U+13F3">>>>,
      <<"U+13FC", <<"U+13F4">>>>, <<"U+13FD", <<"U+13F5">>>>, <<"U+1C80", <<"U+0412">>>>,
      <<"U+1C81", <<"U+0414">>>>, <<"U+1C82", <<"U+041E">>>>, <<"U+1C83", <<"U+0421">>>>,
      <<"U+1C84", <<"U+0422">>>>, <<"U+1C85", <<"U+0422">>>>, <<"U+1C86", <<"U+042A">>>>,
      <<"U+1C87", <<"U+0462">>>>, <<"U+1C88", <<"U+A64A">>>>, <<"U+1D79", <<"U+A77D">>>>,
      <<"U+1D7D", <<"U+2C63">>>>, <<"U+1D8E", <<"U+A7C6">>>>, <<"U+1E01", <<"U+1E00">>>>,
      <<"U+1E03", <<"U+1E02">>>>, <<"U+1E05", <<"U+1E04">>>>, <<"U+1E07", <<"U+1E06">>>>,
      <<"U+1E09", <<"U+1E08">>>>, <<"U+1E0B", <<"U+1E0A">>>>, <<"U+1E0D", <<"U+1E0C">>>>,
      <<"U+1E0F", <<"U+1E0E">>>>, <<"U+1E11", <<"U+1E10">>>>, <<"U+1E13", <<"U+1E12">>>>,
      <<"U+1E15", <<"U+1E14">>>>, <<"U+1E17", <<"U+1E16">>>>, <<"U+1E19", <<"U+1E18">>>>,
      <<"U+1E1B", <<"U+1E1A">>>>, <<"U+1E1D", <<"U+1E1C">>>>, <<"U+1E1F", <<"U+1E1E">>>>,
      <<"U+1E21", <<"U+1E20">>>>, <<"U+1E23", <<"U+1E22">>>>, <<"U+1E25", <<"U+1E24">>>>,
      <<"U+1E27", <<"U+1E26">>>>, <<"U+1E29", <<"U+1E28">>>>, <<"U+1E2B", <<"U+1E2A">>>>,
      <<"U+1E2D", <<"U+1E2C">>>>, <<"U+1E2F", <<"U+1E2E">>>>, <<"U+1E31", <<"U+1E30">>>>,
      <<"U+1E33", <<"U+1E32">>>>, <<"U+1E35", <<"U+1E34">>>>, <<"U+1E37", <<"U+1E36">>>>,
      <<"U+1E39", <<"U+1E38">>>>, <<"U+1E3B", <<"U+1E3A">>>>, <<"U+1E3D", <<"U+1E3C">>>>,
      <<"U+1E3F", <<"U+1E3E">>>>, <<"U+1E41", <<"U+1E40">>>>, <<"U+1E43", <<"U+1E42">>>>,
      <<"U+1E45", <<"U+1E44">>>>, <<"U+1E47", <<"U+1E46">>>>, <<"U+1E49", <<"U+1E48">>>>,
      <<"U+1E4B", <<"U+1E4A">>>>, <<"U+1E4D", <<"U+1E4C">>>>, <<"U+1E4F", <<"U+1E4E">>>>,
      <<"U+1E51", <<"U+1E50">>>>, <<"U+1E53", <<"U+1E52">>>>, <<"U+1E55", <<"U+1E54">>>>,
      <<"U+1E57", <<"U+1E56">>>>, <<"U+1E59", <<"U+1E58">>>>, <<"U+1E5B", <<"U+1E5A">>>>,
      <<"U+1E5D", <<"U+1E5C">>>>, <<"U+1E5F", <<"U+1E5E">>>>, <<"U+1E61", <<"U+1E60">>>>,
      <<"U+1E63", <<"U+1E62">>>>, <<"U+1E65", <<"U+1E64">>>>, <<"U+1E67", <<"U+1E66">>>>,
      <<"U+1E69", <<"U+1E68">>>>, <<"U+1E6B", <<"U+1E6A">>>>, <<"U+1E6D", <<"U+1E6C">>>>,
      <<"U+1E6F", <<"U+1E6E">>>>, <<"U+1E71", <<"U+1E70">>>>, <<"U+1E73", <<"U+1E72">>>>,
      <<"U+1E75", <<"U+1E74">>>>, <<"U+1E77", <<"U+1E76">>>>, <<"U+1E79", <<"U+1E78">>>>,
      <<"U+1E7B", <<"U+1E7A">>>>, <<"U+1E7D", <<"U+1E7C">>>>, <<"U+1E7F", <<"U+1E7E">>>>,
      <<"U+1E81", <<"U+1E80">>>>, <<"U+1E83", <<"U+1E82">>>>, <<"U+1E85", <<"U+1E84">>>>,
      <<"U+1E87", <<"U+1E86">>>>, <<"U+1E89", <<"U+1E88">>>>, <<"U+1E8B", <<"U+1E8A">>>>,
      <<"U+1E8D", <<"U+1E8C">>>>, <<"U+1E8F", <<"U+1E8E">>>>, <<"U+1E91", <<"U+1E90">>>>,
      <<"U+1E93", <<"U+1E92">>>>, <<"U+1E95", <<"U+1E94">>>>, <<"U+1E96", <<"H", "U+0331">>>>,
      <<"U+1E97", <<"T", "U+0308">>>>, <<"U+1E98", <<"W", "U+030A">>>>, <<"U+1E99", <<"Y", "U+030A">>>>,
      <<"U+1E9A", <<"A", "U+02BE">>>>, <<"U+1E9B", <<"U+1E60">>>>, <<"U+1EA1", <<"U+1EA0">>>>,
      <<"U+1EA3", <<"U+1EA2">>>>, <<"U+1EA5", <<"U+1EA4">>>>, <<"U+1EA7", <<"U+1EA6">>>>,
      <<"U+1EA9", <<"U+1EA8">>>>, <<"U+1EAB", <<"U+1EAA">>>>, <<"U+1EAD", <<"U+1EAC">>>>,
      <<"U+1EAF", <<"U+1EAE">>>>, <<"U+1EB1", <<"U+1EB0">>>>, <<"U+1EB3", <<"U+1EB2">>>>,
      <<"U+1EB5", <<"U+1EB4">>>>, <<"U+1EB7", <<"U+1EB6">>>>, <<"U+1EB9", <<"U+1EB8">>>>,
      <<"U+1EBB", <<"U+1EBA">>>>, <<"U+1EBD", <<"U+1EBC">>>>, <<"U+1EBF", <<"U+1EBE">>>>,
      <<"U+1EC1", <<"U+1EC0">>>>, <<"U+1EC3", <<"U+1EC2">>>>, <<"U+1EC5", <<"U+1EC4">>>>,
      <<"U+1EC7", <<"U+1EC6">>>>, <<"U+1EC9", <<"U+1EC8">>>>, <<"U+1ECB", <<"U+1ECA">>>>,
      <<"U+1ECD", <<"U+1ECC">>>>, <<"U+1ECF", <<"U+1ECE">>>>, <<"U+1ED1", <<"U+1ED0">>>>,
      <<"U+1ED3", <<"U+1ED2">>>>, <<"U+1ED5", <<"U+1ED4">>>>, <<"U+1ED7", <<"U+1ED6">>>>,
      <<"U+1ED9", <<"U+1ED8">>>>, <<"U+1EDB", <<"U+1EDA">>>>, <<"U+1EDD", <<"U+1EDC">>>>,
      <<"U+1EDF", <<"U+1EDE">>>>, <<"U+1EE1", <<"U+1EE0">>>>, <<"U+1EE3", <<"U+1EE2">>>>,
      <<"U+1EE5", <<"U+1EE4">>>>, <<"U+1EE7", <<"U+1EE6">>>>, <<"U+1EE9", <<"U+1EE8">>>>,
      <<"U+1EEB", <<"U+1EEA">>>>, <<"U+1EED", <<"U+1EEC">>>>, <<"U+1EEF", <<"U+1EEE">>>>,
      <<"U+1EF1", <<"U+1EF0">>>>, <<"U+1EF3", <<"U+1EF2">>>>, <<"U+1EF5", <<"U+1EF4">>>>,
      <<"U+1EF7", <<"U+1EF6">>>>, <<"U+1EF9", <<"U+1EF8">>>>, <<"U+1EFB", <<"U+1EFA">>>>,
      <<"U+1EFD", <<"U+1EFC">>>>, <<"U+1EFF", <<"U+1EFE">>>>, <<"U+1F00", <<"U+1F08">>>>,
      <<"U+1F01", <<"U+1F09">>>>, <<"U+1F02", <<"U+1F0A">>>>, <<"U+1F03", <<"U+1F0B">>>>,
      <<"U+1F04", <<"U+1F0C">>>>, <<"U+1F05", <<"U+1F0D">>>>, <<"U+1F06", <<"U+1F0E">>>>,
      <<"U+1F07", <<"U+1F0F">>>>, <<"U+1F10", <<"U+1F18">>>>, <<"U+1F11", <<"U+1F19">>>>,
      <<"U+1F12", <<"U+1F1A">>>>, <<"U+1F13", <<"U+1F1B">>>>, <<"U+1F14", <<"U+1F1C">>>>,
      <<"U+1F15", <<"U+1F1D">>>>, <<"U+1F20", <<"U+1F28">>>>, <<"U+1F21", <<"U+1F29">>>>,
      <<"U+1F22", <<"U+1F2A">>>>, <<"U+1F23", <<"U+1F2B">>>>, <<"U+1F24", <<"U+1F2C">>>>,
      <<"U+1F25", <<"U+1F2D">>>>, <<"U+1F26", <<"U+1F2E">>>>, <<"U+1F27", <<"U+1F2F">>>>,
      <<"U+1F30", <<"U+1F38">>>>, <<"U+1F31", <<"U+1F39">>>>, <<"U+1F32", <<"U+1F3A">>>>,
      <<"U+1F33", <<"U+1F3B">>>>, <<"U+1F34", <<"U+1F3C">>>>, <<"U+1F35", <<"U+1F3D">>>>,
      <<"U+1F36", <<"U+1F3E">>>>, <<"U+1F37", <<"U+1F3F">>>>, <<"U+1F40", <<"U+1F48">>>>,
      <<"U+1F41", <<"U+1F49">>>>, <<"U+1F42", <<"U+1F4A">>>>, <<"U+1F43", <<"U+1F4B">>>>,
      <<"U+1F44", <<"U+1F4C">>>>, <<"U+1F45", <<"U+1F4D">>>>, <<"U+1F50", <<"U+03A5", "U+0313">>>>,
      <<"U+1F51", <<"U+1F59">>>>, <<"U+1F52", <<"U+03A5", "U+0313", "U+0300">>>>, <<"U+1F53", <<"U+1F5B">>>>,
      <<"U+1F54", <<"U+03A5", "U+0313", "U+0301">>>>, <<"U+1F55", <<"U+1F5D">>>>, <<"U+1F56", <<"U+03A5", "U+0313", "U+0342">>>>,
      <<"U+1F57", <<"U+1F5F">>>>, <<"U+1F60", <<"U+1F68">>>>, <<"U+1F61", <<"U+1F69">>>>,
      <<"U+1F62", <<"U+1F6A">>>>, <<"U+1F63", <<"U+1F6B">>>>, <<"U+1F64", <<"U+1F6C">>>>,
      <<"U+1F65", <<"U+1F6D">>>>, <<"U+1F66", <<"U+1F6E">>>>, <<"U+1F67", <<"U+1F6F">>>>,
      <<"U+1F70", <<"U+1FBA">>>>, <<"U+1F71", <<"U+1FBB">>>>, <<"U+1F72", <<"U+1FC8">>>>,
      <<"U+1F73", <<"U+1FC9">>>>, <<"U+1F74", <<"U+1FCA">>>>, <<"U+1F75", <<"U+1FCB">>>>,
      <<"U+1F76", <<"U+1FDA">>>>, <<"U+1F77", <<"U+1FDB">>>>, <<"U+1F78", <<"U+1FF8">>>>,
      <<"U+1F79", <<"U+1FF9">>>>, <<"U+1F7A", <<"U+1FEA">>>>, <<"U+1F7B", <<"U+1FEB">>>>,
      <<"U+1F7C", <<"U+1FFA">>>>, <<"U+1F7D", <<"U+1FFB">>>>, <<"U+1F80", <<"U+1F08", "U+0399">>>>,
      <<"U+1F81", <<"U+1F09", "U+0399">>>>, <<"U+1F82", <<"U+1F0A", "U+0399">>>>, <<"U+1F83", <<"U+1F0B", "U+0399">>>>,
      <<"U+1F84", <<"U+1F0C", "U+0399">>>>, <<"U+1F85", <<"U+1F0D", "U+0399">>>>, <<"U+1F86", <<"U+1F0E", "U+0399">>>>,
      <<"U+1F87", <<"U+1F0F", "U+0399">>>>, <<"U+1F88", <<"U+1F08", "U+0399">>>>, <<"U+1F89", <<"U+1F09", "U+0399">>>>,
      <<"U+1F8A", <<"U+1F0A", "U+0399">>>>, <<"U+1F8B", <<"U+1F0B", "U+0399">>>>, <<"U+1F8C", <<"U+1F0C", "U+0399">>>>,
      <<"U+1F8D", <<"U+1F0D", "U+0399">>>>, <<"U+1F8E", <<"U+1F0E", "U+0399">>>>, <<"U+1F8F", <<"U+1F0F", "U+0399">>>>,
      <<"U+1F90", <<"U+1F28", "U+0399">>>>, <<"U+1F91", <<"U+1F29", "U+0399">>>>, <<"U+1F92", <<"U+1F2A", "U+0399">>>>,
      <<"U+1F93", <<"U+1F2B", "U+0399">>>>, <<"U+1F94", <<"U+1F2C", "U+0399">>>>, <<"U+1F95", <<"U+1F2D", "U+0399">>>>,
      <<"U+1F96", <<"U+1F2E", "U+0399">>>>, <<"U+1F97", <<"U+1F2F", "U+0399">>>>, <<"U+1F98", <<"U+1F28", "U+0399">>>>,
      <<"U+1F99", <<"U+1F29", "U+0399">>>>, <<"U+1F9A", <<"U+1F2A", "U+0399">>>>, <<"U+1F9B", <<"U+1F2B", "U+0399">>>>,
      <<"U+1F9C", <<"U+1F2C", "U+0399">>>>, <<"U+1F9D", <<"U+1F2D", "U+0399">>>>, <<"U+1F9E", <<"U+1F2E", "U+0399">>>>,
      <<"U+1F9F", <<"U+1F2F", "U+0399">>>>, <<"U+1FA0", <<"U+1F68", "U+0399">>>>, <<"U+1FA1", <<"U+1F69", "U+0399">>>>,
      <<"U+1FA2", <<"U+1F6A", "U+0399">>>>, <<"U+1FA3", <<"U+1F6B", "U+0399">>>>, <<"U+1FA4", <<"U+1F6C", "U+0399">>>>,
      <<"U+1FA5", <<"U+1F6D", "U+0399">>>>, <<"U+1FA6", <<"U+1F6E", "U+0399">>>>, <<"U+1FA7", <<"U+1F6F", "U+0399">>>>,
      <<"U+1FA8", <<"U+1F68", "U+0399">>>>, <<"U+1FA9", <<"U+1F69", "U+0399">>>>, <<"U+1FAA", <<"U+1F6A", "U+0399">>>>,
      <<"U+1FAB", <<"U+1F6B", "U+0399">>>>, <<"U+1FAC", <<"U+1F6C", "U+0399">>>>, <<"U+1FAD", <<"U+1F6D", "U+0399">>>>,
      <<"U+1FAE", <<"U+1F6E", "U+0399">>>>, <<"U+1FAF", <<"U+1F6F", "U+0399">>>>, <<"U+1FB0", <<"U+1FB8">>>>,
      <<"U+1FB1", <<"U+1FB9">>>>, <<"U+1FB2", <<"U+1FBA", "U+0399">>>>, <<"U+1FB3", <<"U+0391", "U+0399">>>>,
      <<"U+1FB4", <<"U+0386", "U+0399">>>>, <<"U+1FB6", <<"U+0391", "U+0342">>>>, <<"U+1FB7", <<"U+0391", "U+0342", "U+0399">>>>,
      <<"U+1FBC", <<"U+0391", "U+0399">>>>, <<"U+1FBE", <<"U+0399">>>>, <<"U+1FC2", <<"U+1FCA", "U+0399">>>>,
      <<"U+1FC3", <<"U+0397", "U+0399">>>>, <<"U+1FC4", <<"U+0389", "U+0399">>>>, <<"U+1FC6", <<"U+0397", "U+0342">>>>,
      <<"U+1FC7", <<"U+0397", "U+0342", "U+0399">>>>, <<"U+1FCC", <<"U+0397", "U+0399">>>>, <<"U+1FD0", <<"U+1FD8">>>>,
      <<"U+1FD1", <<"U+1FD9">>>>, <<"U+1FD2", <<"U+0399", "U+0308", "U+0300">>>>, <<"U+1FD3", <<"U+0399", "U+0308", "U+0301">>>>,
      <<"U+1FD6", <<"U+0399", "U+0342">>>>, <<"U+1FD7", <<"U+0399", "U+0308", "U+0342">>>>, <<"U+1FE0", <<"U+1FE8">>>>,
      <<"U+1FE1", <<"U+1FE9">>>>, <<"U+1FE2", <<"U+03A5", "U+0308", "U+0300">>>>, <<"U+1FE3", <<"U+03A5", "U+0308", "U+0301">>>>,
      <<"U+1FE4", <<"U+03A1", "U+0313">>>>, <<"U+1FE5", <<"U+1FEC">>>>, <<"U+1FE6", <<"U+03A5", "U+0342">>>>,
      <<"U+1FE7", <<"U+03A5", "U+0308", "U+0342">>>>, <<"U+1FF2", <<"U+1FFA", "U+0399">>>>, <<"U+1FF3", <<"U+03A9", "U+0399">>>>,
      <<"U+1FF4", <<"U+038F", "U+0399">>>>, <<"U+1FF6", <<"U+03A9", "U+0342">>>>, <<"U+1FF7", <<"U+03A9", "U+0342", "U+0399">>>>,
      <<"U+1FFC", <<"U+03A9", "U+0399">>>>, <<"U+214E", <<"U+2132">>>>, <<"U+2170", <<"U+2160">>>>,
      <<"U+2171", <<"U+2161">>>>, <<"U+2172", <<"U+2162">>>>, <<"U+2173", <<"U+2163">>>>,
      <<"U+2174", <<"U+2164">>>>, <<"U+2175", <<"U+2165">>>>, <<"U+2176", <<"U+2166">>>>,
      <<"U+2177", <<"U+2167">>>>, <<"U+2178", <<"U+2168">>>>, <<"U+2179", <<"U+2169">>>>,
      <<"U+217A", <<"U+216A">>>>, <<"U+217B", <<"U+216B">>>>, <<"U+217C", <<"U+216C">>>>,
      <<"U+217D", <<"U+216D">>>>, <<"U+217E", <<"U+216E">>>>, <<"U+217F", <<"U+216F">>>>,
      <<"U+2184", <<"U+2183">>>>, <<"U+24D0", <<"U+24B6">>>>, <<"U+24D1", <<"U+24B7">>>>,
      <<"U+24D2", <<"U+24B8">>>>, <<"U+24D3", <<"U+24B9">>>>, <<"U+24D4", <<"U+24BA">>>>,
      <<"U+24D5", <<"U+24BB">>>>, <<"U+24D6", <<"U+24BC">>>>, <<"U+24D7", <<"U+24BD">>>>,
      <<"U+24D8", <<"U+24BE">>>>, <<"U+24D9", <<"U+24BF">>>>, <<"U+24DA", <<"U+24C0">>>>,
      <<"U+24DB", <<"U+24C1">>>>, <<"U+24DC", <<"U+24C2">>>>, <<"U+24DD", <<"U+24C3">>>>,
      <<"U+24DE", <<"U+24C4">>>>, <<"U+24DF", <<"U+24C5">>>>, <<"U+24E0", <<"U+24C6">>>>,
      <<"U+24E1", <<"U+24C7">>>>, <<"U+24E2", <<"U+24C8">>>>, <<"U+24E3", <<"U+24C9">>>>,
      <<"U+24E4", <<"U+24CA">>>>, <<"U+24E5", <<"U+24CB">>>>, <<"U+24E6", <<"U+24CC">>>>,
      <<"U+24E7", <<"U+24CD">>>>, <<"U+24E8", <<"U+24CE">>>>, <<"U+24E9", <<"U+24CF">>>>,
      <<"U+2C30", <<"U+2C00">>>>, <<"U+2C31", <<"U+2C01">>>>, <<"U+2C32", <<"U+2C02">>>>,
      <<"U+2C33", <<"U+2C03">>>>, <<"U+2C34", <<"U+2C04">>>>, <<"U+2C35", <<"U+2C05">>>>,
      <<"U+2C36", <<"U+2C06">>>>, <<"U+2C37", <<"U+2C07">>>>, <<"U+2C38", <<"U+2C08">>>>,
      <<"U+2C39", <<"U+2C09">>>>, <<"U+2C3A", <<"U+2C0A">>>>, <<"U+2C3B", <<"U+2C0B">>>>,
      <<"U+2C3C", <<"U+2C0C">>>>, <<"U+2C3D", <<"U+2C0D">>>>, <<"U+2C3E", <<"U+2C0E">>>>,
      <<"U+2C3F", <<"U+2C0F">>>>, <<"U+2C40", <<"U+2C10">>>>, <<"U+2C41", <<"U+2C11">>>>,
      <<"U+2C42", <<"U+2C12">>>>, <<"U+2C43", <<"U+2C13">>>>, <<"U+2C44", <<"U+2C14">>>>,
      <<"U+2C45", <<"U+2C15">>>>, <<"U+2C46", <<"U+2C16">>>>, <<"U+2C47", <<"U+2C17">>>>,
      <<"U+2C48", <<"U+2C18">>>>, <<"U+2C49", <<"U+2C19">>>>, <<"U+2C4A", <<"U+2C1A">>>>,
      <<"U+2C4B", <<"U+2C1B">>>>, <<"U+2C4C", <<"U+2C1C">>>>, <<"U+2C4D", <<"U+2C1D">>>>,
      <<"U+2C4E", <<"U+2C1E">>>>, <<"U+2C4F", <<"U+2C1F">>>>, <<"U+2C50", <<"U+2C20">>>>,
      <<"U+2C51", <<"U+2C21">>>>, <<"U+2C52", <<"U+2C22">>>>, <<"U+2C53", <<"U+2C23">>>>,
      <<"U+2C54", <<"U+2C24">>>>, <<"U+2C55", <<"U+2C25">>>>, <<"U+2C56", <<"U+2C26">>>>,
      <<"U+2C57", <<"U+2C27">>>>, <<"U+2C58", <<"U+2C28">>>>, <<"U+2C59", <<"U+2C29">>>>,
      <<"U+2C5A", <<"U+2C2A">>>>, <<"U+2C5B", <<"U+2C2B">>>>, <<"U+2C5C", <<"U+2C2C">>>>,
      <<"U+2C5D", <<"U+2C2D">>>>, <<"U+2C5E", <<"U+2C2E">>>>, <<"U+2C5F", <<"U+2C2F">>>>,
      <<"U+2C61", <<"U+2C60">>>>, <<"U+2C65", <<"U+023A">>>>, <<"U+2C66", <<"U+023E">>>>,
      <<"U+2C68", <<"U+2C67">>>>, <<"U+2C6A", <<"U+2C69">>>>, <<"U+2C6C", <<"U+2C6B">>>>,
      <<"U+2C73", <<"U+2C72">>>>, <<"U+2C76", <<"U+2C75">>>>, <<"U+2C81", <<"U+2C80">>>>,
      <<"U+2C83", <<"U+2C82">>>>, <<"U+2C85", <<"U+2C84">>>>, <<"U+2C87", <<"U+2C86">>>>,
      <<"U+2C89", <<"U+2C88">>>>, <<"U+2C8B", <<"U+2C8A">>>>, <<"U+2C8D", <<"U+2C8C">>>>,
      <<"U+2C8F", <<"U+2C8E">>>>, <<"U+2C91", <<"U+2C90">>>>, <<"U+2C93", <<"U+2C92">>>>,
      <<"U+2C95", <<"U+2C94">>>>, <<"U+2C97", <<"U+2C96">>>>, <<"U+2C99", <<"U+2C98">>>>,
      <<"U+2C9B", <<"U+2C9A">>>>, <<"U+2C9D", <<"U+2C9C">>>>, <<"U+2C9F", <<"U+2C9E">>>>,
      <<"U+2CA1", <<"U+2CA0">>>>, <<"U+2CA3", <<"U+2CA2">>>>, <<"U+2CA5", <<"U+2CA4">>>>,
      <<"U+2CA7", <<"U+2CA6">>>>, <<"U+2CA9", <<"U+2CA8">>>>, <<"U+2CAB", <<"U+2CAA">>>>,
      <<"U+2CAD", <<"U+2CAC">>>>, <<"U+2CAF", <<"U+2CAE">>>>, <<"U+2CB1", <<"U+2CB0">>>>,
      <<"U+2CB3", <<"U+2CB2">>>>, <<"U+2CB5", <<"U+2CB4">>>>, <<"U+2CB7", <<"U+2CB6">>>>,
      <<"U+2CB9", <<"U+2CB8">>>>, <<"U+2CBB", <<"U+2CBA">>>>, <<"U+2CBD", <<"U+2CBC">>>>,
      <<"U+2CBF", <<"U+2CBE">>>>, <<"U+2CC1", <<"U+2CC0">>>>, <<"U+2CC3", <<"U+2CC2">>>>,
      <<"U+2CC5", <<"U+2CC4">>>>, <<"U+2CC7", <<"U+2CC6">>>>, <<"U+2CC9", <<"U+2CC8">>>>,
      <<"U+2CCB", <<"U+2CCA">>>>, <<"U+2CCD", <<"U+2CCC">>>>, <<"U+2CCF", <<"U+2CCE">>>>,
      <<"U+2CD1", <<"U+2CD0">>>>, <<"U+2CD3", <<"U+2CD2">>>>, <<"U+2CD5", <<"U+2CD4">>>>,
      <<"U+2CD7", <<"U+2CD6">>>>, <<"U+2CD9", <<"U+2CD8">>>>, <<"U+2CDB", <<"U+2CDA">>>>,
      <<"U+2CDD", <<"U+2CDC">>>>, <<"U+2CDF", <<"U+2CDE">>>>, <<"U+2CE1", <<"U+2CE0">>>>,
      <<"U+2CE3", <<"U+2CE2">>>>, <<"U+2CEC", <<"U+2CEB">>>>, <<"U+2CEE", <<"U+2CED">>>>,
      <<"U+2CF3", <<"U+2CF2">>>>, <<"U+2D00", <<"U+10A0">>>>, <<"U+2D01", <<"U+10A1">>>>,
      <<"U+2D02", <<"U+10A2">>>>, <<"U+2D03", <<"U+10A3">>>>, <<"U+2D04", <<"U+10A4">>>>,
      <<"U+2D05", <<"U+10A5">>>>, <<"U+2D06", <<"U+10A6">>>>, <<"U+2D07", <<"U+10A7">>>>,
      <<"U+2D08", <<"U+10A8">>>>, <<"U+2D09", <<"U+10A9">>>>, <<"U+2D0A", <<"U+10AA">>>>,
      <<"U+2D0B", <<"U+10AB">>>>, <<"U+2D0C", <<"U+10AC">>>>, <<"U+2D0D", <<"U+10AD">>>>,
      <<"U+2D0E", <<"U+10AE">>>>, <<"U+2D0F", <<"U+10AF">>>>, <<"U+2D10", <<"U+10B0">>>>,
      <<"U+2D11", <<"U+10B1">>>>, <<"U+2D12", <<"U+10B2">>>>, <<"U+2D13", <<"U+10B3">>>>,
      <<"U+2D14", <<"U+10B4">>>>, <<"U+2D15", <<"U+10B5">>>>, <<"U+2D16", <<"U+10B6">>>>,
      <<"U+2D17", <<"U+10B7">>>>, <<"U+2D18", <<"U+10B8">>>>, <<"U+2D19", <<"U+10B9">>>>,
      <<"U+2D1A", <<"U+10BA">>>>, <<"U+2D1B", <<"U+10BB">>>>, <<"U+2D1C", <<"U+10BC">>>>,
      <<"U+2D1D", <<"U+10BD">>>>, <<"U+2D1E", <<"U+10BE">>>>, <<"U+2D1F", <<"U+10BF">>>>,
      <<"U+2D20", <<"U+10C0">>>>, <<"U+2D21", <<"U+10C1">>>>, <<"U+2D22", <<"U+10C2">>>>,
      <<"U+2D23", <<"U+10C3">>>>, <<"U+2D24", <<"U+10C4">>>>, <<"U+2D25", <<"U+10C5">>>>,
      <<"U+2D27", <<"U+10C7">>>>, <<"U+2D2D", <<"U+10CD">>>>, <<"U+A641", <<"U+A640">>>>,
      <<"U+A643", <<"U+A642">>>>, <<"U+A645", <<"U+A644">>>>, <<"U+A647", <<"U+A646">>>>,
      <<"U+A649", <<"U+A648">>>>, <<"U+A64B", <<"U+A64A">>>>, <<"U+A64D", <<"U+A64C">>>>,
      <<"U+A64F", <<"U+A64E">>>>, <<"U+A651", <<"U+A650">>>>, <<"U+A653", <<"U+A652">>>>,
      <<"U+A655", <<"U+A654">>>>, <<"U+A657", <<"U+A656">>>>, <<"U+A659", <<"U+A658">>>>,
      <<"U+A65B", <<"U+A65A">>>>, <<"U+A65D", <<"U+A65C">>>>, <<"U+A65F", <<"U+A65E">>>>,
      <<"U+A661", <<"U+A660">>>>, <<"U+A663", <<"U+A662">>>>, <<"U+A665", <<"U+A664">>>>,
      <<"U+A667", <<"U+A666">>>>, <<"U+A669", <<"U+A668">>>>, <<"U+A66B", <<"U+A66A">>>>,
      <<"U+A66D", <<"U+A66C">>>>, <<"U+A681", <<"U+A680">>>>, <<"U+A683", <<"U+A682">>>>,
      <<"U+A685", <<"U+A684">>>>, <<"U+A687", <<"U+A686">>>>, <<"U+A689", <<"U+A688">>>>,
      <<"U+A68B", <<"U+A68A">>>>, <<"U+A68D", <<"U+A68C">>>>, <<"U+A68F", <<"U+A68E">>>>,
      <<"U+A691", <<"U+A690">>>>, <<"U+A693", <<"U+A692">>>>, <<"U+A695", <<"U+A694">>>>,
      <<"U+A697", <<"U+A696">>>>, <<"U+A699", <<"U+A698">>>>, <<"U+A69B", <<"U+A69A">>>>,
      <<"U+A723", <<"U+A722">>>>, <<"U+A725", <<"U+A724">>>>, <<"U+A727", <<"U+A726">>>>,
      <<"U+A729", <<"U+A728">>>>, <<"U+A72B", <<"U+A72A">>>>, <<"U+A72D", <<"U+A72C">>>>,
      <<"U+A72F", <<"U+A72E">>>>, <<"U+A733", <<"U+A732">>>>, <<"U+A735", <<"U+A734">>>>,
      <<"U+A737", <<"U+A736">>>>, <<"U+A739", <<"U+A738">>>>, <<"U+A73B", <<"U+A73A">>>>,
      <<"U+A73D", <<"U+A73C">>>>, <<"U+A73F", <<"U+A73E">>>>, <<"U+A741", <<"U+A740">>>>,
      <<"U+A743", <<"U+A742">>>>, <<"U+A745", <<"U+A744">>>>, <<"U+A747", <<"U+A746">>>>,
      <<"U+A749", <<"U+A748">>>>, <<"U+A74B", <<"U+A74A">>>>, <<"U+A74D", <<"U+A74C">>>>,
      <<"U+A74F", <<"U+A74E">>>>, <<"U+A751", <<"U+A750">>>>, <<"U+A753", <<"U+A752">>>>,
      <<"U+A755", <<"U+A754">>>>, <<"U+A757", <<"U+A756">>>>, <<"U+A759", <<"U+A758">>>>,
      <<"U+A75B", <<"U+A75A">>>>, <<"U+A75D", <<"U+A75C">>>>, <<"U+A75F", <<"U+A75E">>>>,
      <<"U+A761", <<"U+A760">>>>, <<"U+A763", <<"U+A762">>>>, <<"U+A765", <<"U+A764">>>>,
      <<"U+A767", <<"U+A766">>>>, <<"U+A769", <<"U+A768">>>>, <<"U+A76B", <<"U+A76A">>>>,
      <<"U+A76D", <<"U+A76C">>>>, <<"U+A76F", <<"U+A76E">>>>, <<"U+A77A", <<"U+A779">>>>,
      <<"U+A77C", <<"U+A77B">>>>, <<"U+A77F", <<"U+A77E">>>>, <<"U+A781", <<"U+A780">>>>,
      <<"U+A783", <<"U+A782">>>>, <<"U+A785", <<"U+A784">>>>, <<"U+A787", <<"U+A786">>>>,
      <<"U+A78C", <<"U+A78B">>>>, <<"U+A791", <<"U+A790">>>>, <<"U+A793", <<"U+A792">>>>,
      <<"U+A794", <<"U+A7C4">>>>, <<"U+A797", <<"U+A796">>>>, <<"U+A799", <<"U+A798">>>>,
      <<"U+A79B", <<"U+A79A">>>>, <<"U+A79D", <<"U+A79C">>>>, <<"U+A79F", <<"U+A79E">>>>,
      <<"U+A7A1", <<"U+A7A0">>>>, <<"U+A7A3", <<"U+A7A2">>>>, <<"U+A7A5", <<"U+A7A4">>>>,
      <<"U+A7A7", <<"U+A7A6">>>>, <<"U+A7A9", <<"U+A7A8">>>>, <<"U+A7B5", <<"U+A7B4">>>>,
      <<"U+A7B7", <<"U+A7B6">>>>, <<"U+A7B9", <<"U+A7B8">>>>, <<"U+A7BB", <<"U+A7BA">>>>,
      <<"U+A7BD", <<"U+A7BC">>>>, <<"U+A7BF", <<"U+A7BE">>>>, <<"U+A7C1", <<"U+A7C0">>>>,
      <<"U+A7C3", <<"U+A7C2">>>>, <<"U+A7C8", <<"U+A7C7">>>>, <<"U+A7CA", <<"U+A7C9">>>>,
      <<"U+A7D1", <<"U+A7D0">>>>, <<"U+A7D7", <<"U+A7D6">>>>, <<"U+A7D9", <<"U+A7D8">>>>,
      <<"U+A7F6", <<"U+A7F5">>>>, <<"U+AB53", <<"U+A7B3">>>>, <<"U+AB70", <<"U+13A0">>>>,
      <<"U+AB71", <<"U+13A1">>>>, <<"U+AB72", <<"U+13A2">>>>, <<"U+AB73", <<"U+13A3">>>>,
      <<"U+AB74", <<"U+13A4">>>>, <<"U+AB75", <<"U+13A5">>>>, <<"U+AB76", <<"U+13A6">>>>,
      <<"U+AB77", <<"U+13A7">>>>, <<"U+AB78", <<"U+13A8">>>>, <<"U+AB79", <<"U+13A9">>>>,
      <<"U+AB7A", <<"U+13AA">>>>, <<"U+AB7B", <<"U+13AB">>>>, <<"U+AB7C", <<"U+13AC">>>>,
      <<"U+AB7D", <<"U+13AD">>>>, <<"U+AB7E", <<"U+13AE">>>>, <<"U+AB7F", <<"U+13AF">>>>,
      <<"U+AB80", <<"U+13B0">>>>, <<"U+AB81", <<"U+13B1">>>>, <<"U+AB82", <<"U+13B2">>>>,
      <<"U+AB83", <<"U+13B3">>>>, <<"U+AB84", <<"U+13B4">>>>, <<"U+AB85", <<"U+13B5">>>>,
      <<"U+AB86", <<"U+13B6">>>>, <<"U+AB87", <<"U+13B7">>>>, <<"U+AB88", <<"U+13B8">>>>,
      <<"U+AB89", <<"U+13B9">>>>, <<"U+AB8A", <<"U+13BA">>>>, <<"U+AB8B", <<"U+13BB">>>>,
      <<"U+AB8C", <<"U+13BC">>>>, <<"U+AB8D", <<"U+13BD">>>>, <<"U+AB8E", <<"U+13BE">>>>,
      <<"U+AB8F", <<"U+13BF">>>>, <<"U+AB90", <<"U+13C0">>>>, <<"U+AB91", <<"U+13C1">>>>,
      <<"U+AB92", <<"U+13C2">>>>, <<"U+AB93", <<"U+13C3">>>>, <<"U+AB94", <<"U+13C4">>>>,
      <<"U+AB95", <<"U+13C5">>>>, <<"U+AB96", <<"U+13C6">>>>, <<"U+AB97", <<"U+13C7">>>>,
      <<"U+AB98", <<"U+13C8">>>>, <<"U+AB99", <<"U+13C9">>>>, <<"U+AB9A", <<"U+13CA">>>>,
      <<"U+AB9B", <<"U+13CB">>>>, <<"U+AB9C", <<"U+13CC">>>>, <<"U+AB9D", <<"U+13CD">>>>,
      <<"U+AB9E", <<"U+13CE">>>>, <<"U+AB9F", <<"U+13CF">>>>, <<"U+ABA0", <<"U+13D0">>>>,
      <<"U+ABA1", <<"U+13D1">>>>, <<"U+ABA2", <<"U+13D2">>>>, <<"U+ABA3", <<"U+13D3">>>>,
      <<"U+ABA4", <<"U+13D4">>>>, <<"U+ABA5", <<"U+13D5">>>>, <<"U+ABA6", <<"U+13D6">>>>,
      <<"U+ABA7", <<"U+13D7">>>>, <<"U+ABA8", <<"U+13D8">>>>, <<"U+ABA9", <<"U+13D9">>>>,
      <<"U+ABAA", <<"U+13DA">>>>, <<"U+ABAB", <<"U+13DB">>>>, <<"U+ABAC", <<"U+13DC">>>>,
      <<"U+ABAD", <<"U+13DD">>>>, <<"U+ABAE", <<"U+13DE">>>>, <<"U+ABAF", <<"U+13DF">>>>,
      <<"U+ABB0", <<"U+13E0">>>>, <<"U+ABB1", <<"U+13E1">>>>, <<"U+ABB2", <<"U+13E2">>>>,
      <<"U+ABB3", <<"U+13E3">>>>, <<"U+ABB4", <<"U+13E4">>>>, <<"U+ABB5", <<"U+13E5">>>>,
      <<"U+ABB6", <<"U+13E6">>>>, <<"U+ABB7", <<"U+13E7">>>>, <<"U+ABB8", <<"U+13E8">>>>,
      <<"U+ABB9", <<"U+13E9">>>>, <<"U+ABBA", <<"U+13EA">>>>, <<"U+ABBB", <<"U+13EB">>>>,
      <<"U+ABBC", <<"U+13EC">>>>, <<"U+ABBD", <<"U+13ED">>>>, <<"U+ABBE", <<"U+13EE">>>>,
      <<"U+ABBF", <<"U+13EF">>>>, <<"U+FB00", <<"F", "F">>>>, <<"U+FB01", <<"F", "I">>>>,
      <<"U+FB02", <<"F", "L">>>>, <<"U+FB03", <<"F", "F", "I">>>>, <<"U+FB04", <<"F", "F", "L">>>>,
      <<"U+FB05", <<"S", "T">>>>, <<"U+FB06", <<"S", "T">>>>, <<"U+FB13", <<"U+0544", "U+0546">>>>,
      <<"U+FB14", <<"U+0544", "U+0535">>>>, <<"U+FB15", <<"U+0544", "U+053B">>>>, <<"U+FB16", <<"U+054E", "U+0546">>>>,
      <<"U+FB17", <<"U+0544", "U+053D">>>>, <<"U+FF41", <<"U+FF21">>>>, <<"U+FF42", <<"U+FF22">>>>,
      <<"U+FF43", <<"U+FF23">>>>, <<"U+FF44", <<"U+FF24">>>>, <<"U+FF45", <<"U+FF25">>>>,
      <<"U+FF46", <<"U+FF26">>>>, <<"U+FF47", <<"U+FF27">>>>, <<"U+FF48", <<"U+FF28">>>>,
      <<"U+FF49", <<"U+FF29">>>>, <<"U+FF4A", <<"U+FF2A">>>>, <<"U+FF4B", <<"U+FF2B">>>>,
      <<"U+FF4C", <<"U+FF2C">>>>, <<"U+FF4D", <<"U+FF2D">>>>, <<"U+FF4E", <<"U+FF2E">>>>,
      <<"U+FF4F", <<"U+FF2F">>>>, <<"U+FF50", <<"U+FF30">>>>, <<"U+FF51", <<"U+FF31">>>>,
      <<"U+FF52", <<"U+FF32">>>>, <<"U+FF53", <<"U+FF33">>>>, <<"U+FF54", <<"U+FF34">>>>,
      <<"U+FF55", <<"U+FF35">>>>, <<"U+FF56", <<"U+FF36">>>>, <<"U+FF57", <<"U+FF37">>>>,
      <<"U+FF58", <<"U+FF38">>>>, <<"U+FF59", <<"U+FF39">>>>, <<"U+FF5A", <<"U+FF3A">>>>,
      <<"U+10428", <<"U+10400">>>>, <<"U+10429", <<"U+10401">>>>, <<"U+1042A", <<"U+10402">>>>,
      <<"U+1042B", <<"U+10403">>>>, <<"U+1042C", <<"U+10404">>>>, <<"U+1042D", <<"U+10405">>>>,
      <<"U+1042E", <<"U+10406">>>>, <<"U+1042F", <<"U+10407">>>>, <<"U+10430", <<"U+10408">>>>,
      <<"U+10431", <<"U+10409">>>>, <<"U+10432", <<"U+1040A">>>>, <<"U+10433", <<"U+1040B">>>>,
      <<"U+10434", <<"U+1040C">>>>, <<"U+10435", <<"U+1040D">>>>, <<"U+10436", <<"U+1040E">>>>,
      <<"U+10437", <<"U+1040F">>>>, <<"U+10438", <<"U+10410">>>>, <<"U+10439", <<"U+10411">>>>,
      <<"U+1043A", <<"U+10412">>>>, <<"U+1043B", <<"U+10413">>>>, <<"U+1043C", <<"U+10414">>>>,
      <<"U+1043D", <<"U+10415">>>>, <<"U+1043E", <<"U+10416">>>>, <<"U+1043F", <<"U+10417">>>>,
      <<"U+10440", <<"U+10418">>>>, <<"U+10441", <<"U+10419">>>>, <<"U+10442", <<"U+1041A">>>>,
      <<"U+10443", <<"U+1041B">>>>, <<"U+10444", <<"U+1041C">>>>, <<"U+10445", <<"U+1041D">>>>,
      <<"U+10446", <<"U+1041E">>>>, <<"U+10447", <<"U+1041F">>>>, <<"U+10448", <<"U+10420">>>>,
      <<"U+10449", <<"U+10421">>>>, <<"U+1044A", <<"U+10422">>>>, <<"U+1044B", <<"U+10423">>>>,
      <<"U+1044C", <<"U+10424">>>>, <<"U+1044D", <<"U+10425">>>>, <<"U+1044E", <<"U+10426">>>>,
      <<"U+1044F", <<"U+10427">>>>, <<"U+104D8", <<"U+104B0">>>>, <<"U+104D9", <<"U+104B1">>>>,
      <<"U+104DA", <<"U+104B2">>>>, <<"U+104DB", <<"U+104B3">>>>, <<"U+104DC", <<"U+104B4">>>>,
      <<"U+104DD", <<"U+104B5">>>>, <<"U+104DE", <<"U+104B6">>>>, <<"U+104DF", <<"U+104B7">>>>,
      <<"U+104E0", <<"U+104B8">>>>, <<"U+104E1", <<"U+104B9">>>>, <<"U+104E2", <<"U+104BA">>>>,
      <<"U+104E3", <<"U+104BB">>>>, <<"U+104E4", <<"U+104BC">>>>, <<"U+104E5", <<"U+104BD">>>>,
      <<"U+104E6", <<"U+104BE">>>>, <<"U+104E7", <<"U+104BF">>>>, <<"U+104E8", <<"U+104C0">>>>,
      <<"U+104E9", <<"U+104C1">>>>, <<"U+104EA", <<"U+104C2">>>>, <<"U+104EB", <<"U+104C3">>>>,
      <<"U+104EC", <<"U+104C4">>>>, <<"U+104ED", <<"U+104C5">>>>, <<"U+104EE", <<"U+104C6">>>>,
      <<"U+104EF", <<"U+104C7">>>>, <<"U+104F0", <<"U+104C8">>>>, <<"U+104F1", <<"U+104C9">>>>,
      <<"U+104F2", <<"U+104CA">>>>, <<"U+104F3", <<"U+104CB">>>>, <<"U+104F4", <<"U+104CC">>>>,
      <<"U+104F5", <<"U+104CD">>>>, <<"U+104F6", <<"U+104CE">>>>, <<"U+104F7", <<"U+104CF">>>>,
      <<"U+104F8", <<"U+104D0">>>>, <<"U+104F9", <<"U+104D1">>>>, <<"U+104FA", <<"U+104D2">>>>,
      <<"U+104FB", <<"U+104D3">>>>, <<"U+10597", <<"U+10570">>>>, <<"U+10598", <<"U+10571">>>>,
      <<"U+10599", <<"U+10572">>>>, <<"U+1059A", <<"U+10573">>>>, <<"U+1059B", <<"U+10574">>>>,
      <<"U+1059C", <<"U+10575">>>>, <<"U+1059D", <<"U+10576">>>>, <<"U+1059E", <<"U+10577">>>>,
      <<"U+1059F", <<"U+10578">>>>, <<"U+105A0", <<"U+10579">>>>, <<"U+105A1", <<"U+1057A">>>>,
      <<"U+105A3", <<"U+1057C">>>>, <<"U+105A4", <<"U+1057D">>>>, <<"U+105A5", <<"U+1057E">>>>,
      <<"U+105A6", <<"U+1057F">>>>, <<"U+105A7", <<"U+10580">>>>, <<"U+105A8", <<"U+10581">>>>,
      <<"U+105A9", <<"U+10582">>>>, <<"U+105AA", <<"U+10583">>>>, <<"U+105AB", <<"U+10584">>>>,
      <<"U+105AC", <<"U+10585">>>>, <<"U+105AD", <<"U+10586">>>>, <<"U+105AE", <<"U+10587">>>>,
      <<"U+105AF", <<"U+10588">>>>, <<"U+105B0", <<"U+10589">>>>, <<"U+105B1", <<"U+1058A">>>>,
      <<"U+105B3", <<"U+1058C">>>>, <<"U+105B4", <<"U+1058D">>>>, <<"U+105B5", <<"U+1058E">>>>,
      <<"U+105B6", <<"U+1058F">>>>, <<"U+105B7", <<"U+10590">>>>, <<"U+105B8", <<"U+10591">>>>,
      <<"U+105B9", <<"U+10592">>>>, <<"U+105BB", <<"U+10594">>>>, <<"U+105BC", <<"U+10595">>>>,
      <<"U+10CC0", <<"U+10C80">>>>, <<"U+10CC1", <<"U+10C81">>>>, <<"U+10CC2", <<"U+10C82">>>>,
      <<"U+10CC3", <<"U+10C83">>>>, <<"U+10CC4", <<"U+10C84">>>>, <<"U+10CC5", <<"U+10C85">>>>,
      <<"U+10CC6", <<"U+10C86">>>>, <<"U+10CC7", <<"U+10C87">>>>, <<"U+10CC8", <<"U+10C88">>>>,
      <<"U+10CC9", <<"U+10C89">>>>, <<"U+10CCA", <<"U+10C8A">>>>, <<"U+10CCB", <<"U+10C8B">>>>,
      <<"U+10CCC", <<"U+10C8C">>>>, <<"U+10CCD", <<"U+10C8D">>>>, <<"U+10CCE", <<"U+10C8E">>>>,
      <<"U+10CCF", <<"U+10C8F">>>>, <<"U+10CD0", <<"U+10C90">>>>, <<"U+10CD1", <<"U+10C91">>>>,
      <<"U+10CD2", <<"U+10C92">>>>, <<"U+10CD3", <<"U+10C93">>>>, <<"U+10CD4", <<"U+10C94">>>>,
      <<"U+10CD5", <<"U+10C95">>>>, <<"U+10CD6", <<"U+10C96">>>>, <<"U+10CD7", <<"U+10C97">>>>,
      <<"U+10CD8", <<"U+10C98">>>>, <<"U+10CD9", <<"U+10C99">>>>, <<"U+10CDA", <<"U+10C9A">>>>,
      <<"U+10CDB", <<"U+10C9B">>>>, <<"U+10CDC", <<"U+10C9C">>>>, <<"U+10CDD", <<"U+10C9D">>>>,
      <<"U+10CDE", <<"U+10C9E">>>>, <<"U+10CDF", <<"U+10C9F">>>>, <<"U+10CE0", <<"U+10CA0">>>>,
      <<"U+10CE1", <<"U+10CA1">>>>, <<"U+10CE2", <<"U+10CA2">>>>, <<"U+10CE3", <<"U+10CA3">>>>,
      <<"U+10CE4", <<"U+10CA4">>>>, <<"U+10CE5", <<"U+10CA5">>>>, <<"U+10CE6", <<"U+10CA6">>>>,
      <<"U+10CE7", <<"U+10CA7">>>>, <<"U+10CE8", <<"U+10CA8">>>>, <<"U+10CE9", <<"U+10CA9">>>>,
      <<"U+10CEA", <<"U+10CAA">>>>, <<"U+10CEB", <<"U+10CAB">>>>, <<"U+10CEC", <<"U+10CAC">>>>,
      <<"U+10CED", <<"U+10CAD">>>>, <<"U+10CEE", <<"U+10CAE">>>>, <<"U+10CEF", <<"U+10CAF">>>>,
      <<"U+10CF0", <<"U+10CB0">>>>, <<"U+10CF1", <<"U+10CB1">>>>, <<"U+10CF2", <<"U+10CB2">>>>,
      <<"U+118C0", <<"U+118A0">>>>, <<"U+118C1", <<"U+118A1">>>>, <<"U+118C2", <<"U+118A2">>>>,
      <<"U+118C3", <<"U+118A3">>>>, <<"U+118C4", <<"U+118A4">>>>, <<"U+118C5", <<"U+118A5">>>>,
      <<"U+118C6", <<"U+118A6">>>>, <<"U+118C7", <<"U+118A7">>>>, <<"U+118C8", <<"U+118A8">>>>,
      <<"U+118C9", <<"U+118A9">>>>, <<"U+118CA", <<"U+118AA">>>>, <<"U+118CB", <<"U+118AB">>>>,
      <<"U+118CC", <<"U+118AC">>>>, <<"U+118CD", <<"U+118AD">>>>, <<"U+118CE", <<"U+118AE">>>>,
      <<"U+118CF", <<"U+118AF">>>>, <<"U+118D0", <<"U+118B0">>>>, <<"U+118D1", <<"U+118B1">>>>,
      <<"U+118D2", <<"U+118B2">>>>, <<"U+118D3", <<"U+118B3">>>>, <<"U+118D4", <<"U+118B4">>>>,
      <<"U+118D5", <<"U+118B5">>>>, <<"U+118D6", <<"U+118B6">>>>, <<"U+118D7", <<"U+118B7">>>>,
      <<"U+118D8", <<"U+118B8">>>>, <<"U+118D9", <<"U+118B9">>>>, <<"U+118DA", <<"U+118BA">>>>,
      <<"U+118DB", <<"U+118BB">>>>, <<"U+118DC", <<"U+118BC">>>>, <<"U+118DD", <<"U+118BD">>>>,
      <<"U+118DE", <<"U+118BE">>>>, <<"U+118DF", <<"U+118BF">>>>, <<"U+16E60", <<"U+16E40">>>>,
      <<"U+16E61", <<"U+16E41">>>>, <<"U+16E62", <<"U+16E42">>>>, <<"U+16E63", <<"U+16E43">>>>,
      <<"U+16E64", <<"U+16E44">>>>, <<"U+16E65", <<"U+16E45">>>>, <<"U+16E66", <<"U+16E46">>>>,
      <<"U+16E67", <<"U+16E47">>>>, <<"U+16E68", <<"U+16E48">>>>, <<"U+16E69", <<"U+16E49">>>>,
      <<"U+16E6A", <<"U+16E4A">>>>, <<"U+16E6B", <<"U+16E4B">>>>, <<"U+16E6C", <<"U+16E4C">>>>,
      <<"U+16E6D", <<"U+16E4D">>>>, <<"U+16E6E", <<"U+16E4E">>>>, <<"U+16E6F", <<"U+16E4F">>>>,
      <<"U+16E70", <<"U+16E50">>>>, <<"U+16E71", <<"U+16E51">>>>, <<"U+16E72", <<"U+16E52">>>>,
      <<"U+16E73", <<"U+16E53">>>>, <<"U+16E74", <<"U+16E54">>>>, <<"U+16E75", <<"U+16E55">>>>,
      <<"U+16E76", <<"U+16E56">>>>, <<"U+16E77", <<"U+16E57">>>>, <<"U+16E78", <<"U+16E58">>>>,
      <<"U+16E79", <<"U+16E59">>>>, <<"U+16E7A", <<"U+16E5A">>>>, <<"U+16E7B", <<"U+16E5B">>>>,
      <<"U+16E7C", <<"U+16E5C">>>>, <<"U+16E7D", <<"U+16E5D">>>>, <<"U+16E7E", <<"U+16E5E">>>>,
      <<"U+16E7F", <<"U+16E5F">>>>, <<"U+1E922", <<"U+1E900">>>>, <<"U+1E923", <<"U+1E901">>>>,
      <<"U+1E924", <<"U+1E902">>>>, <<"U+1E925", <<"U+1E903">>>>, <<"U+1E926", <<"U+1E904">>>>,
      <<"U+1E927", <<"U+1E905">>>>, <<"U+1E928", <<"U+1E906">>>>, <<"U+1E929", <<"U+1E907">>>>,
      <<"U+1E92A", <<"U+1E908">>>>, <<"U+1E92B", <<"U+1E909">>>>, <<"U+1E92C", <<"U+1E90A">>>>,
      <<"U+1E92D", <<"U+1E90B">>>>, <<"U+1E92E", <<"U+1E90C">>>>, <<"U+1E92F", <<"U+1E90D">>>>,
      <<"U+1E930", <<"U+1E90E">>>>, <<"U+1E931", <<"U+1E90F">>>>, <<"U+1E932", <<"U+1E910">>>>,
      <<"U+1E933", <<"U+1E911">>>>, <<"U+1E934", <<"U+1E912">>>>, <<"U+1E935", <<"U+1E913">>>>,
      <<"U+1E936", <<"U+1E914">>>>, <<"U+1E937", <<"U+1E915">>>>, <<"U+1E938", <<"U+1E916">>>>,
      <<"U+1E939", <<"U+1E917">>>>, <<"U+1E93A", <<"U+1E918">>>>, <<"U+1E93B", <<"U+1E919">>>>,
      <<"U+1E93C", <<"U+1E91A">>>>, <<"U+1E93D", <<"U+1E91B">>>>, <<"U+1E93E", <<"U+1E91C">>>>,
      <<"U+1E93F", <<"U+1E91D">>>>, <<"U+1E940", <<"U+1E91E">>>>, <<"U+1E941", <<"U+1E91F">>>>,
      <<"U+1E942", <<"U+1E920">>>>, <<"U+1E943", <<"U+1E921">>>> }

Cased == {p[1] : p \in UpperPairs}

\* str.upper(), one character; the result is a text of one to three characters.
UpperChar(c) ==
    IF \E i \in 1..Len(LowerCase) : LowerCase[i] = c
    THEN <<UpperCase[CHOOSE i \in 1..Len(LowerCase) : LowerCase[i] = c]>>
    ELSE IF c \in Cased
    THEN (CHOOSE p \in UpperPairs : p[1] = c)[2]
    ELSE <<c>>

\* str.upper()
RECURSIVE Upper(_)
Upper(s) ==
    IF s = <<>> THEN <<>> ELSE UpperChar(Head(s)) \o Upper(Tail(s))

\* str.strip()
RECURSIVE LStrip(_)
LStrip(s) ==
    IF s # <<>> /\ Head(s) \in WhiteSpace THEN LStrip(Tail(s)) ELSE s

RECURSIVE RStrip(_)
RStrip(s) ==
    IF s # <<>> /\ s[Len(s)] \in WhiteSpace
    THEN RStrip(SubSeq(s, 1, Len(s) - 1))
    ELSE s

Strip(s) == RStrip(LStrip(s))

\* x in s, for strings
IsSubstring(x, s) ==
    \E i \in 1..(Len(s) - Len(x) + 1) : SubSeq(s, i, i + Len(x) - 1) = x

\* The list of line 127.
DenyList == { <<"T", "H", "K">>, <<"T", "A", "B", "L", "E">>, <<"D", "I", "M">>,
              <<"N", "O", "T", "E">>, <<"C", "F", "S">>, <<"C", "F">>,
              <<"N", "U", "C", "F">> }

MIN_LABEL_LEN == 2
MAX_LABEL_LEN == 20

\* Line 125 with the span kept, on the stripped text.
LengthOk(text) ==
    text # <<>> /\ ~(Len(text) < MIN_LABEL_LEN) /\ ~(Len(text) > MAX_LABEL_LEN)

\* Line 127 without the .upper().
NotDenied_case_sensitive(text) == ~(\E x \in DenyList : IsSubstring(x, text))

\* Line 127 with the span kept, on the stripped text.
NotDenied(text) == ~(\E x \in DenyList : IsSubstring(x, Upper(text)))

(***************************************************************************)
(* extract_labels_with_positions                                           *)
(***************************************************************************)
LABEL_DISTANCE_THRESHOLD == 50

\* Line 131, doubled: bbox.tl + (bbox.br - bbox.tl) * 0.5
Center2(b) == P(b.x0 + b.x1, b.y0 + b.y1)

\* diagram_rect.contains(center) on the doubled centre
ContainsCenter(r, b) ==
    ContainsPoint(R(2 * r.x0, 2 * r.y0, 2 * r.x1, 2 * r.y1), Center2(b))

\* Line 132 with "and" in place of "or".
IsLabelOf_both(region, bbox, t) ==
    ContainsCenter(region, bbox) /\ DistanceBelow(region, bbox, t)

\* Line 132 with <= in place of <.
IsLabelOf_inclusive(region, bbox, t) ==
    \/ ContainsCenter(region, bbox)
    \/ (t >= 0 /\ rect_distance_sq(region, bbox) <= t * t)

\* Line 132: the inclusion test of a span.
IsLabelOf(region, bbox, t) ==
    ContainsCenter(region, bbox) \/ DistanceBelow(region, bbox, t)

\* Lines 124-133 for one span: the labels list after it.
LabelOne(out, span, region, t) ==
    LET text == Strip(span.text)
    IN  IF LengthOk(text) /\ NotDenied(text) /\ IsLabelOf(region, span.bbox, t)
        THEN Append(out, [text |-> text, bbox |-> span.bbox])
        ELSE out

RECURSIVE LabelSpans(_, _, _, _)
LabelSpans(out, spans, region, t) ==
    IF spans = <<>> THEN out
    ELSE LabelSpans(LabelOne(out, Head(spans), region, t), Tail(spans), region, t)

\* Lines 119-133: blocks without "lines" are passed over.
RECURSIVE LabelBlocks(_, _, _, _)
LabelBlocks(out, blocks, region, t) ==
    IF blocks = <<>> THEN out
    ELSE LET b == Head(blocks)
         IN  LabelBlocks(IF b.has_lines THEN LabelSpans(out, b.spans, region, t) ELSE out,
                         Tail(blocks), region, t)

\* extract_labels_with_positions(page, diagram_rect), lines 113-134.
extract_labels_with_positions(pg, region, t) == LabelBlocks(<<>>, pg.blocks, region, t)

(***************************************************************************)
(* is_potential_diagram                                                    *)
(***************************************************************************)
MAX_LINES == 20
MAX_RECTS == 10
MIN_CURVES == 2
BANNER_WIDTH == 400
BANNER_HEIGHT == 150
CURVES_ACCEPT == 3
MIN_SHAPES == 5

\* len([s for s in shapes if s['type'] == kind])
CountType(shapes, kind) ==
    Cardinality({i \in 1..Len(shapes) : shapes[i].type = kind})

\* fitz.Rect(x) succeeds on four coordinates and raises on a point.
IsRectLike(b) == DOMAIN b = {"x0", "y0", "x1", "y1"}

\* Lines 23-29: the wide-and-short test, made on the bbox of shapes[0]; a bbox
\* that is no rectangle raises inside the try and is passed over.
WideAndShort(shapes) ==
    /\ shapes # <<>>
    /\ IsRectLike(shapes[1].bbox)
    /\ Width(shapes[1].bbox) > BANNER_WIDTH
    /\ Height(shapes[1].bbox) < BANNER_HEIGHT

\* Lines 20-34 with the curve count looked at before the wide-and-short test.
is_potential_diagram_curves_first(shapes) ==
    LET lines  == CountType(shapes, "line")
        rcts   == CountType(shapes, "rect")
        curves == CountType(shapes, "curve")
    IN  IF lines > MAX_LINES /\ rcts > MAX_RECTS /\ curves < MIN_CURVES THEN FALSE
        ELSE IF curves >= CURVES_ACCEPT THEN TRUE
        ELSE IF WideAndShort(shapes) THEN FALSE
        ELSE lines + rcts + curves > MIN_SHAPES

\* is_potential_diagram(shapes), lines 11-34.
is_potential_diagram(shapes) ==
    LET lines  == CountType(shapes, "line")
        rcts   == CountType(shapes, "rect")
        curves == CountType(shapes, "curve")
    IN  IF lines > MAX_LINES /\ rcts > MAX_RECTS /\ curves < MIN_CURVES THEN FALSE
        ELSE IF WideAndShort(shapes) THEN FALSE
        ELSE IF curves >= CURVES_ACCEPT THEN TRUE
        ELSE lines + rcts + curves > MIN_SHAPES

(***************************************************************************)
(* is_in_header_or_footer                                                  *)
(***************************************************************************)
HEADER_PERCENT == 10    \* HEADER_RATIO = 0.10
FOOTER_PERCENT == 15    \* FOOTER_RATIO = 0.15

\* Line 67 testing the header band only.
is_in_header_or_footer_top(rect, page_height) ==
    100 * rect.y0 < HEADER_PERCENT * page_height

\* Line 67 testing the footer band only.
is_in_header_or_footer_bottom(rect, page_height) ==
    100 * rect.y1 > (100 - FOOTER_PERCENT) * page_height

\* Line 67: rect.y0 < HEADER_RATIO * H or rect.y1 > (1 - FOOTER_RATIO) * H
is_in_header_or_footer(rect, page_height) ==
    \/ 100 * rect.y0 < HEADER_PERCENT * page_height
    \/ 100 * rect.y1 > (100 - FOOTER_PERCENT) * page_height

(***************************************************************************)
(* extract_diagram_regions_from_page                                       *)
(***************************************************************************)
\* Lines 83-91: the components of a drawing; items of another kind are dropped.
KindType(kind) ==
    CASE kind = "l"  -> "line"
      [] kind = "re" -> "rect"
      [] kind = "c"  -> "curve"
      [] OTHER       -> "none"

RECURSIVE Components(_)
Components(items) ==
    IF items = <<>> THEN <<>>
    ELSE LET it == Head(items)
         IN  IF KindType(it.kind) = "none" THEN Components(Tail(items))
             ELSE <<[type |-> KindType(it.kind), bbox |-> it.arg]>> \o Components(Tail(items))

\* Lines 78-94 for one drawing: is its rect appended to diagram_candidates?
IsCandidate(shape, page_height) ==
    /\ shape.items # <<>>
    /\ is_potential_diagram(Components(shape.items))
    /\ ~is_in_header_or_footer(shape.rect, page_height)

RECURSIVE VectorFrom(_, _)
VectorFrom(shapes, page_height) ==
    IF shapes = <<>> THEN <<>>
    ELSE (IF IsCandidate(Head(shapes), page_height) THEN <<Head(shapes).rect>> ELSE <<>>)
         \o VectorFrom(Tail(shapes), page_height)

\* extract_diagram_regions_from_page(page), lines 69-96.
extract_diagram_regions_from_page(pg) == VectorFrom(pg.drawings, pg.height)

(***************************************************************************)
(* extract_image_diagram_regions                                           *)
(***************************************************************************)
MIN_IMAGE_WIDTH == 80
MIN_IMAGE_HEIGHT == 80

\* Lines 107-110 for one block: is its bbox appended to image_regions?
IsImageRegion(b, page_height) ==
    /\ b.type = 1
    /\ Width(b.bbox) >= MIN_IMAGE_WIDTH
    /\ Height(b.bbox) >= MIN_IMAGE_HEIGHT
    /\ ~is_in_header_or_footer(b.bbox, page_height)

RECURSIVE ImagesFrom(_, _)
ImagesFrom(blocks, page_height) ==
    IF blocks = <<>> THEN <<>>
    ELSE (IF IsImageRegion(Head(blocks), page_height) THEN <<Head(blocks).bbox>> ELSE <<>>)
         \o ImagesFrom(Tail(blocks), page_height)

\* extract_image_diagram_regions(page), lines 98-111, with the default sizes.
extract_image_diagram_regions(pg) == ImagesFrom(pg.blocks, pg.height)

(***************************************************************************)
(* save_diagram_from_pdf: the checks made on one region                    *)
(***************************************************************************)
MERGE_THRESHOLD == 40
BRANDING_PAGES == {1, 45}

\* page.rect
PageRect(pg) == R(0, 0, pg.width, pg.height)

\* Lines 173-178: why region idx of all_diagrams is passed over, "none" if it is not.
SkipReason(pg, all, idx) ==
    LET rect == all[idx]
    IN  IF Width(rect) <= 0 \/ Height(rect) <= 0 THEN "invalid"
        ELSE IF ~ContainsPoint(PageRect(pg), TL(rect)) /\ ~ContainsPoint(PageRect(pg), BR(rect))
             THEN "outside"
        ELSE "none"

\* Lines 205-211: the metadata written for region idx.
Metadata(pg, rect, idx, lbls) ==
    [file   |-> idx,
     labels |-> [i \in 1..Len(lbls) |-> lbls[i].text],
     page   |-> pg.number,
     bbox   |-> rect]

(***************************************************************************)
(* Inputs                                                                  *)
(***************************************************************************)
\* Well-formed rectangles (x0 <= x1, y0 <= y1) of the grid 0..MaxCoord.
GridRects ==
    {r \in [x0 : 0..MaxCoord, y0 : 0..MaxCoord, x1 : 0..MaxCoord, y1 : 0..MaxCoord] :
        r.x0 <= r.x1 /\ r.y0 <= r.y1}

\* Rectangles given to merge_rects: the rectangles of the documented scenarios
\* and their neighbours (gaps of 5, 10, 20 and 40, a diagonal gap of exactly
\* 10, overlap, containment, and rectangles without area).
MergeRects ==
    { R(0, 0, 50, 50),      R(55, 0, 100, 50),   R(60, 0, 100, 50),
      R(70, 0, 100, 50),    R(90, 0, 140, 50),   R(56, 58, 100, 100),
      R(10, 10, 20, 20),    R(40, 40, 80, 80),   R(0, 100, 200, 150),
      R(55, 0, 55, 50),     R(120, 0, 120, 50),  R(20, 20, 20, 20) }

Thresholds == {10, 30, MERGE_THRESHOLD}

\* Detections given to _filter_outer_tables.
DetectionSet ==
    { Det(0, 0, 100, 100, s) : s \in {50, 90} }
    \cup { Det(10, 10, 20, 20, s) : s \in {50, 90} }
    \cup { Det(50, 50, 120, 120, 90), Det(0, 0, 100, 50, 90), Det(60, 60, 110, 110, 50) }

\* Texts of spans.
Rep(n, c) == [i \in 1..n |-> c]
TextSet ==
    { <<"A", "1">>,
      <<" ", "M", "8", " ">>,
      <<" ", "B", "\n">>,
      <<>>,
      <<" ", " ">>,
      <<"t", "h", "k", " ", "5">>,
      <<"N", "o", "t", "e">>,
      <<"S", "c", "f", "2">>,
      <<"A", "\r">>,
      <<"\f", "M", "8", "U+00A0">>,
      <<"d", "U+0131", "m">>,
      <<"c", "U+FB01", " ", "2">>,
      Rep(MAX_LABEL_LEN, "x"),
      Rep(MAX_LABEL_LEN + 1, "x"),
      <<" ">> \o Rep(MAX_LABEL_LEN, "x") \o <<" ">> }

\* Regions and span boxes given to extract_labels_with_positions.
LabelRegions == { R(100, 100, 300, 300), R(100, 100, 100, 300) }

SpanBoxes ==
    { R(150, 150, 170, 160),     \* centre inside
      R(290, 150, 310, 160),     \* centre on the right edge
      R(355, 150, 365, 160),     \* centre 60 away, box 55 away
      R(340, 150, 380, 160),     \* centre 60 away, box 40 away
      R(350, 150, 370, 160),     \* centre 60 away, box 50 away
      R(330, 330, 350, 350),     \* diagonal: box 30 and 30 away
      R(340, 330, 350, 350),     \* diagonal: box 40 and 30 away
      R(150, 150, 150, 160),     \* no width, centre inside
      R(500, 500, 520, 510) }    \* far away

Span(t, b) == [text |-> t, bbox |-> b]

SpanSet ==
    { Span(<<"A", "1">>, b) : b \in SpanBoxes }
    \cup { Span(t, R(150, 150, 170, 160)) : t \in TextSet }
    \cup { Span(<<"t", "h", "k", " ", "5">>, R(340, 150, 380, 160)) }

LabelThresholds == {0, LABEL_DISTANCE_THRESHOLD, 100}

\* Blocks of page.get_text("dict")["blocks"].
TextBlock(spans) == [type |-> 0, has_lines |-> TRUE, bbox |-> R(0, 0, 0, 0), spans |-> spans]
ImageBlock(b) == [type |-> 1, has_lines |-> FALSE, bbox |-> b, spans |-> <<>>]

\* Items of page.get_drawings(): ("l", p1, p2), ("re", rect, ...), ("c", p1, ...), ("qu", quad).
Item(k, a) == [kind |-> k, arg |-> a]
Lines(n) == Rep(n, Item("l", P(60, 210)))
Curves(n) == Rep(n, Item("c", P(60, 210)))
Rects(n, b) == Rep(n, Item("re", b))
Drawing(r, its) == [rect |-> r, items |-> its]

DrawingSet ==
    { Drawing(R(50, 50, 150, 90), Curves(3)),
      Drawing(R(50, 200, 150, 300), Lines(6)),
      Drawing(R(600, 600, 700, 700), Curves(3)),
      Drawing(R(50, 900, 150, 950), Lines(6)),
      Drawing(R(50, 100, 150, 850), Lines(5) \o <<Item("qu", R(50, 100, 150, 850))>> \o Curves(1)),
      Drawing(R(-20, 200, 820, 300), Lines(6)),
      Drawing(R(200, 400, 200, 500), Lines(6)),
      Drawing(R(-100, 200, -50, 300), Curves(3)),
      Drawing(R(50, 200, 150, 300), Lines(2)),
      Drawing(R(50, 200, 150, 300), <<>>),
      Drawing(R(0, 200, 500, 300), Rects(1, R(0, 200, 500, 300)) \o Lines(5)),
      Drawing(R(50, 200, 150, 300), Lines(21) \o Rects(11, R(50, 200, 60, 210))) }

ImageSet ==
    { R(100, 250, 750, 750), R(300, 300, 370, 400), R(300, 20, 400, 120) }

\* Shape lists given to is_potential_diagram: a first shape followed by lines,
\* rectangles and curves.  A bbox is a rectangle, or the point that
\* extract_diagram_regions_from_page takes from a line or curve item.
Shape(t, b) == [type |-> t, bbox |-> b]

FirstShapes ==
    { Shape("rect", R(0, 200, 500, 300)),     \* 500 x 100: wide and short
      Shape("rect", R(0, 200, 100, 300)),     \* 100 x 100
      Shape("rect", R(0, 200, 400, 300)),     \* 400 x 100: not wider than 400
      Shape("rect", R(0, 200, 500, 350)),     \* 500 x 150: not shorter than 150
      Shape("line", P(60, 210)),
      Shape("line", R(0, 200, 500, 300)),
      Shape("curve", P(60, 210)) }

MoreLines == { <<>>, Rep(5, Shape("line", P(60, 210))), Rep(21, Shape("line", R(0, 200, 100, 300))) }
MoreRects == { <<>>, <<Shape("rect", R(400, 200, 500, 300))>>, <<Shape("rect", R(0, 200, 100, 400))>>,
               Rep(11, Shape("rect", R(0, 200, 100, 300))) }
MoreCurves == { Rep(n, Shape("curve", P(60, 210))) : n \in 0..3 }

ShapeLists ==
    { <<>> } \cup
    { <<f>> \o ls \o rs \o cs : f \in FirstShapes, ls \in MoreLines, rs \in MoreRects, cs \in MoreCurves }

PageSizes == { [width |-> 800, height |-> 1000], [width |-> 400, height |-> 500] }
PageNumbers == {1, 2}
JsonStates == {"absent", "tables", "unreadable"}

PageSpans ==
    << Span(<<"A", "1", "\r">>, R(60, 210, 80, 220)),
       Span(<<"N", "O", "T", "E", " ", "1">>, R(60, 230, 80, 240)),
       Span(<<"M", "8">>, R(640, 640, 660, 650)) >>

NoPage == [number |-> 0, json |-> "absent", width |-> 0, height |-> 0,
           drawings |-> <<>>, blocks |-> <<>>]
NoRect == R(0, 0, 0, 0)

(***************************************************************************)
(* Initial states: the arguments of the function under study               *)
(***************************************************************************)
DistIdle   == rect1 = NoRect /\ rect2 = NoRect /\ dist_sq = -1
MergeIdle  == rects = <<>> /\ threshold = 0 /\ merged = <<>> /\ pos = 0 /\ last_hit = 0
FilterIdle == detections = <<>> /\ filtered = <<>> /\ fi = 0
ClassIdle  == components = <<>> /\ is_diagram = FALSE
LabelIdle  == diagram_rect = NoRect /\ label_threshold = LABEL_DISTANCE_THRESHOLD /\ labels = <<>>
PageIdle   == /\ page = NoPage
              /\ vector_diagrams = <<>> /\ image_diagrams = <<>> /\ all_diagrams = <<>>
              /\ outcome = <<>> /\ saved = <<>>

InitDist ==
    /\ pc = "distance"
    /\ rect1 \in GridRects /\ rect2 \in GridRects /\ dist_sq = -1
    /\ MergeIdle /\ FilterIdle /\ ClassIdle /\ LabelIdle /\ PageIdle

InitMerge ==
    /\ pc = "merge"
    /\ rects \in SeqUpTo(MergeRects, MaxRects)
    /\ threshold \in Thresholds
    /\ merged = <<>> /\ pos = 0 /\ last_hit = 0
    /\ DistIdle /\ FilterIdle /\ ClassIdle /\ LabelIdle /\ PageIdle

InitFilter ==
    /\ pc = "filter"
    /\ detections \in SeqUpTo(DetectionSet, MaxDetections)
    /\ filtered = <<>> /\ fi = 1
    /\ DistIdle /\ MergeIdle /\ ClassIdle /\ LabelIdle /\ PageIdle

InitLabels ==
    /\ pc = "labels"
    /\ \E spans \in SeqUpTo(SpanSet, MaxSpans) :
          page = [NoPage EXCEPT !.number = 2, !.width = 800, !.height = 1000,
                                !.blocks = <<ImageBlock(R(300, 300, 400, 400)), TextBlock(spans)>>]
    /\ diagram_rect \in LabelRegions
    /\ label_threshold \in LabelThresholds
    /\ labels = <<>>
    /\ vector_diagrams = <<>> /\ image_diagrams = <<>> /\ all_diagrams = <<>>
    /\ outcome = <<>> /\ saved = <<>>
    /\ DistIdle /\ MergeIdle /\ FilterIdle /\ ClassIdle

InitPage ==
    /\ pc = "page"
    /\ \E n \in PageNumbers, j \in JsonStates, sz \in PageSizes,
          ds \in SeqUpTo(DrawingSet, MaxDrawings), ims \in SeqUpTo(ImageSet, MaxImages) :
          page = [number |-> n, json |-> j, width |-> sz.width, height |-> sz.height,
                  drawings |-> ds,
                  blocks |-> [i \in 1..Len(ims) |-> ImageBlock(ims[i])] \o <<TextBlock(PageSpans)>>]
    /\ vector_diagrams = <<>> /\ image_diagrams = <<>> /\ all_diagrams = <<>>
    /\ outcome = <<>> /\ saved = <<>>
    /\ DistIdle /\ MergeIdle /\ FilterIdle /\ ClassIdle /\ LabelIdle

(***************************************************************************)
InitClassify ==
    /\ pc = "classify"
    /\ components \in ShapeLists
    /\ is_diagram = FALSE
    /\ DistIdle /\ MergeIdle /\ FilterIdle /\ LabelIdle /\ PageIdle

(* Actions                                                                 *)
(***************************************************************************)
\* rect_distance(rect1, rect2), lines 36-45
Distance ==
    /\ pc = "distance"
    /\ dist_sq' = rect_distance_sq(rect1, rect2)
    /\ pc' = "distance_done"
    /\ UNCHANGED <<rect1, rect2, mergeVars, filterVars, classVars, labelVars, pageVars>>

\* is_potential_diagram(shapes), lines 11-34
Classify ==
    /\ pc = "classify"
    /\ is_diagram' = is_potential_diagram(components)
    /\ pc' = "classify_done"
    /\ UNCHANGED <<components, distVars, mergeVars, filterVars, labelVars, pageVars>>

\* merge_rects: one pass of the loop of lines 52-60
MergeStep ==
    /\ pc = "merge"
    /\ pos < Len(rects)
    /\ merged' = MergeOne(merged, rects[pos + 1], threshold)
    /\ last_hit' = FirstMatch(merged, rects[pos + 1], threshold)
    /\ pos' = pos + 1
    /\ UNCHANGED <<pc, rects, threshold, distVars, filterVars, classVars, labelVars, pageVars>>

\* merge_rects: line 61, called on its own
MergeReturn ==
    /\ pc = "merge"
    /\ pos = Len(rects)
    /\ page.number = 0
    /\ pc' = "merge_done"
    /\ UNCHANGED <<mergeVars, distVars, filterVars, classVars, labelVars, pageVars>>

\* _filter_outer_tables: one pass of the loop of lines 72-88
FilterStep ==
    /\ pc = "filter"
    /\ fi <= Len(detections)
    /\ filtered' = FilterOne(filtered, detections, fi)
    /\ fi' = fi + 1
    /\ UNCHANGED <<pc, detections, distVars, mergeVars, classVars, labelVars, pageVars>>

\* _filter_outer_tables: line 90
FilterReturn ==
    /\ pc = "filter"
    /\ fi > Len(detections)
    /\ pc' = "filter_done"
    /\ UNCHANGED <<filterVars, classVars, distVars, mergeVars, labelVars, pageVars>>

\* extract_labels_with_positions(page, diagram_rect), lines 113-134
ExtractLabels ==
    /\ pc = "labels"
    /\ labels' = extract_labels_with_positions(page, diagram_rect, label_threshold)
    /\ pc' = "labels_done"
    /\ UNCHANGED <<diagram_rect, label_threshold, distVars, mergeVars, filterVars, classVars, pageVars>>

\* save_diagram_from_pdf, lines 149-151: a branding page
SkipBranding ==
    /\ pc = "page"
    /\ page.number \in BRANDING_PAGES
    /\ pc' = "page_done"
    /\ UNCHANGED <<distVars, mergeVars, filterVars, classVars, labelVars, pageVars>>

\* save_diagram_from_pdf, lines 153-160: a page whose JSON lists tables
SkipTables ==
    /\ pc = "page"
    /\ page.number \notin BRANDING_PAGES
    /\ page.json = "tables"
    /\ pc' = "page_done"
    /\ UNCHANGED <<distVars, mergeVars, filterVars, classVars, labelVars, pageVars>>

\* save_diagram_from_pdf, lines 147-162: a print raised and nothing caught it:
\* that of line 147 or 150 on a standard output that cannot be written, or
\* that of line 162 (reached from an unreadable JSON, or from the print of
\* line 159 raising inside the try), which also raises when its message
\* cannot be encoded.  The call ends there, before any candidate is extracted.
PageRaised ==
    /\ pc = "page"
    /\ pc' = "raised"
    /\ UNCHANGED <<distVars, mergeVars, filterVars, classVars, labelVars, pageVars>>

\* save_diagram_from_pdf, lines 153-167: no JSON, one without tables, one that
\* could not be read and whose failure was printed (lines 161-162), or one
\* with tables whose print of line 159 raised inside the try and was handled
\* the same way; the candidates, handed to merge_rects
ExtractCandidates ==
    /\ pc = "page"
    /\ page.number \notin BRANDING_PAGES
    /\ vector_diagrams' = extract_diagram_regions_from_page(page)
    /\ image_diagrams' = extract_image_diagram_regions(page)
    /\ rects' = vector_diagrams' \o image_diagrams'
    /\ threshold' = MERGE_THRESHOLD
    /\ merged' = <<>> /\ pos' = 0 /\ last_hit' = 0
    /\ pc' = "merge"
    /\ UNCHANGED <<page, all_diagrams, outcome, saved, distVars, filterVars, classVars, labelVars>>

\* save_diagram_from_pdf, lines 167-170: the result of merge_rects
MergeDiagrams ==
    /\ pc = "merge"
    /\ pos = Len(rects)
    /\ page.number # 0
    /\ all_diagrams' = merged
    /\ pc' = IF merged = <<>> THEN "page_done" ELSE "regions"
    /\ UNCHANGED <<page, vector_diagrams, image_diagrams, outcome, saved,
                   mergeVars, distVars, filterVars, classVars, labelVars>>

\* save_diagram_from_pdf, lines 167-169: merge_rects returned no region and
\* the print of line 169 raised on a standard output that cannot be written;
\* nothing catches it and the call ends there.
NoDiagramsRaised ==
    /\ pc = "merge"
    /\ pos = Len(rects)
    /\ page.number # 0
    /\ merged = <<>>
    /\ all_diagrams' = merged
    /\ pc' = "raised"
    /\ UNCHANGED <<page, vector_diagrams, image_diagrams, outcome, saved,
                   mergeVars, distVars, filterVars, classVars, labelVars>>

\* save_diagram_from_pdf, lines 173-177: the region is one to pass over and the
\* print of line 174 or 177 raised on a standard output that cannot be
\* written; nothing catches it, the call ends at that region.
SkipRaised ==
    /\ pc = "regions"
    /\ Len(outcome) < Len(all_diagrams)
    /\ SkipReason(page, all_diagrams, Len(outcome) + 1) # "none"
    /\ pc' = "raised"
    /\ UNCHANGED <<distVars, mergeVars, filterVars, classVars, labelVars, pageVars>>

\* save_diagram_from_pdf, lines 172-178: a region passed over
SkipRegion ==
    /\ pc = "regions"
    /\ Len(outcome) < Len(all_diagrams)
    /\ SkipReason(page, all_diagrams, Len(outcome) + 1) # "none"
    /\ outcome' = Append(outcome, SkipReason(page, all_diagrams, Len(outcome) + 1))
    /\ UNCHANGED <<pc, page, vector_diagrams, image_diagrams, all_diagrams, saved,
                   mergeVars, distVars, filterVars, classVars, labelVars>>

\* save_diagram_from_pdf, lines 180-185: rendering raised, the handler printed
\* its message and went on to the next region
RenderFailed ==
    /\ pc = "regions"
    /\ Len(outcome) < Len(all_diagrams)
    /\ SkipReason(page, all_diagrams, Len(outcome) + 1) = "none"
    /\ outcome' = Append(outcome, "render_failed")
    /\ UNCHANGED <<pc, page, vector_diagrams, image_diagrams, all_diagrams, saved,
                   mergeVars, distVars, filterVars, classVars, labelVars>>

\* save_diagram_from_pdf, lines 180-184: rendering raised and so did the print
\* of the handler (line 184), whose message holds U+274C, on a standard output
\* that cannot encode it or cannot be written; nothing catches that, the call ends there before
\* any label is extracted.
RenderRaised ==
    /\ pc = "regions"
    /\ Len(outcome) < Len(all_diagrams)
    /\ SkipReason(page, all_diagrams, Len(outcome) + 1) = "none"
    /\ pc' = "raised"
    /\ UNCHANGED <<distVars, mergeVars, filterVars, classVars, labelVars, pageVars>>

\* save_diagram_from_pdf, lines 180-213: a region rendered, labelled and written
SaveRegion ==
    /\ pc = "regions"
    /\ Len(outcome) < Len(all_diagrams)
    /\ SkipReason(page, all_diagrams, Len(outcome) + 1) = "none"
    /\ LET idx  == Len(outcome) + 1
           rect == all_diagrams[idx]
       IN  /\ diagram_rect' = rect
           /\ labels' = extract_labels_with_positions(page, rect, label_threshold)
           /\ saved' = Append(saved, Metadata(page, rect, idx, labels'))
    /\ outcome' = Append(outcome, "saved")
    /\ UNCHANGED <<pc, page, vector_diagrams, image_diagrams, all_diagrams, label_threshold,
                   mergeVars, distVars, filterVars, classVars>>

\* save_diagram_from_pdf, lines 187-213: the region was rendered and its labels
\* extracted, then drawing the labels, img.save, the print of line 203 (its
\* message holds U+2705) or the metadata write raised;
\* nothing catches it, the call ends there and no metadata is written for
\* this region or for any later one.
SaveRaised ==
    /\ pc = "regions"
    /\ Len(outcome) < Len(all_diagrams)
    /\ SkipReason(page, all_diagrams, Len(outcome) + 1) = "none"
    /\ diagram_rect' = all_diagrams[Len(outcome) + 1]
    /\ labels' = extract_labels_with_positions(page, all_diagrams[Len(outcome) + 1], label_threshold)
    /\ pc' = "raised"
    /\ UNCHANGED <<page, vector_diagrams, image_diagrams, all_diagrams, outcome, saved,
                   label_threshold, mergeVars, distVars, filterVars, classVars>>

\* save_diagram_from_pdf: the loop of line 172 ends
FinishPage ==
    /\ pc = "regions"
    /\ Len(outcome) = Len(all_diagrams)
    /\ pc' = "page_done"
    /\ UNCHANGED <<distVars, mergeVars, filterVars, classVars, labelVars, pageVars>>

(***************************************************************************)
(* Specifications                                                          *)
(***************************************************************************)
NextDist == Distance
SpecDist == InitDist /\ [][NextDist]_vars

NextClassify == Classify
SpecClassify == InitClassify /\ [][NextClassify]_vars

NextMerge == MergeStep \/ MergeReturn
SpecMerge == InitMerge /\ [][NextMerge]_vars

NextFilter == FilterStep \/ FilterReturn
SpecFilter == InitFilter /\ [][NextFilter]_vars

NextLabels == ExtractLabels
SpecLabels == InitLabels /\ [][NextLabels]_vars

NextPage ==
    \/ SkipBranding
    \/ SkipTables
    \/ PageRaised
    \/ ExtractCandidates
    \/ MergeStep
    \/ MergeDiagrams
    \/ NoDiagramsRaised
    \/ SkipRegion
    \/ SkipRaised
    \/ RenderFailed
    \/ RenderRaised
    \/ SaveRegion
    \/ SaveRaised
    \/ FinishPage
SpecPage == InitPage /\ [][NextPage]_vars

Init == InitPage
Next == NextPage
Spec == SpecPage

(***************************************************************************)
(* Properties                                                              *)
(***************************************************************************)
Range(f) == {f[i] : i \in DOMAIN f}

\* The gaps between two rectangles along each axis, negative when they overlap.
HorizontalGap(a, b) == Max2(b.x0 - a.x1, a.x0 - b.x1)
VerticalGap(a, b) == Max2(b.y0 - a.y1, a.y0 - b.y1)

\* The square of the distance between the closest edges.
EdgeDistanceSq(a, b) ==
    Max2(HorizontalGap(a, b), 0) * Max2(HorizontalGap(a, b), 0)
    + Max2(VerticalGap(a, b), 0) * Max2(VerticalGap(a, b), 0)

\* The pair is merged by the rule "intersects, or closer than d".
Close(a, b, d) == Intersects(a, b) \/ (d > 0 /\ EdgeDistanceSq(a, b) < d * d)

\* C1: merge_rects([a, b], d) is [the tight bounding box of a and b]
\* when a intersects b or rect_distance(a, b) < d, and [a, b] otherwise.
C1_BoundingBoxOrBoth ==
    (pc = "merge_done" /\ Len(rects) = 2) =>
        merged = IF Close(rects[1], rects[2], threshold)
                 THEN <<BoundingBox(rects[1], rects[2])>>
                 ELSE <<rects[1], rects[2]>>

\* C2: when _filter_outer_tables returns, a detection is absent from the result
\* exactly when some other detection lies fully inside it; for A = (0,0,100,100)
\* and B = (10,10,20,20) the result is exactly [B].
C2_OuterRemoved ==
    pc = "filter_done" =>
        /\ \A i \in 1..Len(detections) :
              (detections[i] \notin Range(filtered))
              <=> (\E j \in 1..Len(detections) :
                      /\ j # i
                      /\ detections[i].x1 <= detections[j].x1
                      /\ detections[i].y1 <= detections[j].y1
                      /\ detections[i].x2 >= detections[j].x2
                      /\ detections[i].y2 >= detections[j].y2)
        /\ Range(filtered) \subseteq Range(detections)
        /\ (detections = <<Det(0, 0, 100, 100, 90), Det(10, 10, 20, 20, 50)>>
              => filtered = <<Det(10, 10, 20, 20, 50)>>)

C2_Witness ==
    /\ pc = "filter_done"
    /\ detections = <<Det(0, 0, 100, 100, 90), Det(10, 10, 20, 20, 50)>>
    /\ filtered = <<Det(10, 10, 20, 20, 50)>>

\* C3 as stated: _filter_outer_tables never returns an empty list for a
\* non-empty list of detections; of equal rectangles the first is kept.
C3_NeverEmpty ==
    (pc = "filter_done" /\ detections # <<>>) => filtered # <<>>

\* The spans of the page, and whether a span is among the returned labels.
SpansOf(pg) ==
    UNION {Range(pg.blocks[i].spans) : i \in {k \in 1..Len(pg.blocks) : pg.blocks[k].has_lines}}
Returned(span) == [text |-> Strip(span.text), bbox |-> span.bbox] \in Range(labels)

\* The text of the span passes the length filter (2 to 20 characters after
\* stripping) and holds no token of the denylist.
PassesTextFilters(span) ==
    LET text == Strip(span.text)
    IN  /\ Len(text) >= 2 /\ Len(text) <= 20
        /\ \A x \in DenyList : ~IsSubstring(x, Upper(text))

\* The centre of the box lies inside the region (the region's right and bottom
\* edges are outside, as in Rect.contains).
CenterInside(region, b) ==
    /\ 2 * region.x0 <= b.x0 + b.x1 /\ b.x0 + b.x1 < 2 * region.x1
    /\ 2 * region.y0 <= b.y0 + b.y1 /\ b.y0 + b.y1 < 2 * region.y1

\* C4: a span that passes the text filters and whose centre lies inside the
\* region is returned as a label, whatever the label-distance threshold.
C4_CenterInsideIsLabel ==
    pc = "labels_done" =>
        \A span \in SpansOf(page) :
            (PassesTextFilters(span) /\ CenterInside(diagram_rect, span.bbox))
            => Returned(span)

C4_Witness ==
    /\ pc = "labels_done"
    /\ label_threshold = 0
    /\ \E span \in SpansOf(page) :
          /\ PassesTextFilters(span)
          /\ CenterInside(diagram_rect, span.bbox)
          /\ Returned(span)

\* Four times the square of the distance from the centre of box b to the region.
CenterDistanceSq4(region, b) ==
    LET cx == b.x0 + b.x1
        cy == b.y0 + b.y1
        dx == Max3(2 * region.x0 - cx, cx - 2 * region.x1, 0)
        dy == Max3(2 * region.y0 - cy, cy - 2 * region.y1, 0)
    IN  dx * dx + dy * dy

\* C5 as stated: with the threshold 50, a span whose centre lies outside the
\* region and at least 50 units from it is never returned, whatever its box.
C5_CenterFarExcluded ==
    (pc = "labels_done" /\ label_threshold = 50) =>
        \A span \in SpansOf(page) :
            (/\ ~CenterInside(diagram_rect, span.bbox)
             /\ CenterDistanceSq4(diagram_rect, span.bbox) >= 4 * 50 * 50)
            => ~Returned(span)

\* C5, amended: with the threshold 50, a span whose centre lies outside the
\* region and whose bounding box is at least 50 units from the region is
\* never returned.
C5_BoxFarExcluded ==
    (pc = "labels_done" /\ label_threshold = 50) =>
        \A span \in SpansOf(page) :
            (/\ ~CenterInside(diagram_rect, span.bbox)
             /\ ~Intersects(diagram_rect, span.bbox)
             /\ EdgeDistanceSq(diagram_rect, span.bbox) >= 50 * 50)
            => ~Returned(span)

C5_Witness ==
    /\ pc = "labels_done"
    /\ label_threshold = 50
    /\ diagram_rect = R(100, 100, 300, 300)
    /\ \E span \in SpansOf(page) :
          /\ span.bbox = R(350, 150, 370, 160)
          /\ PassesTextFilters(span)
          /\ ~Returned(span)

\* The box lies in the header band (y0 < 0.10 H) or the footer band (y1 > 0.85 H).
InBand(b, h) == 10 * b.y0 < h \/ 100 * b.y1 > 85 * h

\* C6: a drawing or image block whose box lies in the header or footer band
\* is never among the diagram candidates, even when the classifier accepts the
\* drawing or the image has the minimum size.
C6_BandExcluded ==
    pc # "page" =>
        /\ \A i \in 1..Len(page.drawings) :
              InBand(page.drawings[i].rect, page.height)
              => page.drawings[i].rect \notin Range(vector_diagrams)
        /\ \A i \in 1..Len(page.blocks) :
              (page.blocks[i].type = 1 /\ InBand(page.blocks[i].bbox, page.height))
              => page.blocks[i].bbox \notin Range(image_diagrams)
        /\ \A r \in Range(vector_diagrams) \cup Range(image_diagrams) :
              ~InBand(r, page.height)

C6_Witness ==
    /\ pc = "page_done"
    /\ page.height = 1000
    /\ page.number = 2 /\ page.json # "tables"
    /\ \E i \in 1..Len(page.drawings) :
          /\ page.drawings[i].rect = R(50, 50, 150, 90)
          /\ is_potential_diagram(Components(page.drawings[i].items))
          /\ R(50, 50, 150, 90) \notin Range(vector_diagrams)
    /\ \E i \in 1..Len(page.blocks) :
          /\ page.blocks[i].bbox = R(300, 20, 400, 120)
          /\ R(300, 20, 400, 120) \notin Range(image_diagrams)

\* C7: if no two rectangles of the input are mergeable under the threshold
\* (no pair intersects, every pair is at a distance >= d), merge_rects returns
\* the same rectangles in the same order.
NoPairMergeable(rs, d) ==
    \A i \in 1..Len(rs) : \A j \in 1..Len(rs) :
        i < j => (~Intersects(rs[i], rs[j]) /\ EdgeDistanceSq(rs[i], rs[j]) >= d * d)

C7_MergeFreeUnchanged ==
    (pc = "merge_done" /\ NoPairMergeable(rects, threshold)) => merged = rects

C7_Witness ==
    /\ pc = "merge_done"
    /\ Len(rects) = 3
    /\ NoPairMergeable(rects, threshold)
    /\ \E i \in 1..3 : IsEmpty(rects[i])
    /\ merged = rects

\* Region r covers region q entirely.
Covers(r, q) == r.x0 <= q.x0 /\ r.y0 <= q.y0 /\ q.x1 <= r.x1 /\ q.y1 <= r.y1

\* C8: among the regions of a page for which labels are extracted
\* and output is written, no region fully contains another one.
C8_NoRegionContainsAnother ==
    \A i \in 1..Len(saved) : \A j \in 1..Len(saved) :
        i # j => ~Covers(saved[i].bbox, saved[j].bbox)

\* The region and the page have an area in common.
OverlapsPage(pg, r) ==
    /\ r.x0 < r.x1 /\ r.y0 < r.y1
    /\ Max2(r.x0, 0) < Min2(r.x1, pg.width)
    /\ Max2(r.y0, 0) < Min2(r.y1, pg.height)

\* C9 as stated: a merged region is passed over silently exactly when it has
\* non-positive width or height or lies entirely outside the page; a region
\* that overlaps the page with positive width and height is not; and the
\* regions after a skipped one are still handled.
C9_SkippedExactlyWhenOutside ==
    /\ \A i \in 1..Len(outcome) :
          (outcome[i] \in {"invalid", "outside"})
          <=> (\/ all_diagrams[i].x1 - all_diagrams[i].x0 <= 0
               \/ all_diagrams[i].y1 - all_diagrams[i].y0 <= 0
               \/ ~OverlapsPage(page, all_diagrams[i]))
    /\ (pc = "page_done" /\ all_diagrams # <<>>) => Len(outcome) = Len(all_diagrams)

\* C10: rect_distance(a, b) is 0 exactly when the horizontal and the vertical
\* gap are both <= 0 (the rectangles intersect or touch) and is positive
\* otherwise; rect_distance(r, r) = 0 for every r, also without width or height.
C10_ZeroIffTouching ==
    pc = "distance_done" =>
        /\ dist_sq >= 0
        /\ (dist_sq = 0) <=> (HorizontalGap(rect1, rect2) <= 0 /\ VerticalGap(rect1, rect2) <= 0)
        /\ (rect1 = rect2 => dist_sq = 0)

C10_Witness ==
    /\ pc = "distance_done"
    /\ rect1 = rect2
    /\ rect1.x0 = rect1.x1
    /\ rect1.y0 < rect1.y1
    /\ dist_sq = 0

\* The rectangles have an area in common.
Overlap(a, b) ==
    /\ a.x0 < a.x1 /\ a.y0 < a.y1 /\ b.x0 < b.x1 /\ b.y0 < b.y1
    /\ a.x0 < b.x1 /\ b.x0 < a.x1 /\ a.y0 < b.y1 /\ b.y0 < a.y1

\* C11: rect_distance is symmetric, rect_distance(a, b) = rect_distance(b, a),
\* and it is 0 whenever a intersects b.
C11_Symmetric ==
    pc = "distance_done" =>
        /\ dist_sq = rect_distance_sq(rect2, rect1)
        /\ (Overlap(rect1, rect2) => dist_sq = 0)

C11_Witness ==
    /\ pc = "distance_done"
    /\ rect1 # rect2
    /\ rect1.x1 < rect2.x0 /\ rect1.y1 < rect2.y0
    /\ dist_sq > 0
    /\ dist_sq = rect_distance_sq(rect2, rect1)

\* The boilerplate tokens, in upper case.
BoilerplateTokens ==
    { <<"T", "H", "K">>, <<"T", "A", "B", "L", "E">>, <<"D", "I", "M">>,
      <<"N", "O", "T", "E">>, <<"C", "F", "S">>, <<"C", "F">>, <<"N", "U", "C", "F">> }

\* Character c is the letter u, in upper or lower case.
SameLetter(c, u) ==
    c = u \/ \E i \in 1..26 : UpperCase[i] = u /\ LowerCase[i] = c

\* The text holds a boilerplate token, whatever the case of its letters.
HoldsBoilerplate(text) ==
    \E x \in BoilerplateTokens :
        \E i \in 1..(Len(text) - Len(x) + 1) :
            \A k \in 1..Len(x) : SameLetter(text[i + k - 1], x[k])

\* C12: every label returned has a stripped text of 2 to 20 characters that
\* holds no boilerplate token (case-insensitive); a span failing either test
\* is never returned, even when its centre lies inside the region.
C12_LabelsPassTextFilters ==
    pc = "labels_done" =>
        /\ \A l \in Range(labels) :
              /\ Len(l.text) >= 2 /\ Len(l.text) <= 20
              /\ l.text = Strip(l.text)
              /\ ~HoldsBoilerplate(l.text)
        /\ \A span \in SpansOf(page) :
              (\/ Len(Strip(span.text)) < 2
               \/ Len(Strip(span.text)) > 20
               \/ HoldsBoilerplate(Strip(span.text)))
              => ~Returned(span)

C12_Witness ==
    /\ pc = "labels_done"
    /\ Len(labels) = 1
    /\ Len(labels[1].text) = 20
    /\ \E span \in SpansOf(page) :
          /\ span.text = <<"t", "h", "k", " ", "5">>
          /\ CenterInside(diagram_rect, span.bbox)
          /\ ~Returned(span)

(***************************************************************************)
(* C13, C14: is_potential_diagram                                          *)
(***************************************************************************)
\* The number of components of each kind, and the tests of the four rules.
NumberOf(kind) == Len(SelectSeq(components, LAMBDA s : s.type = kind))
TotalShapes == NumberOf("line") + NumberOf("rect") + NumberOf("curve")
LineHeavy == NumberOf("line") > 20 /\ NumberOf("rect") > 10 /\ NumberOf("curve") < 2
ManyCurves == NumberOf("curve") >= 3
EnoughShapes == TotalShapes > 5

\* The bounding box the function reads: that of the first component, when it
\* is a rectangle.
FirstBoxIsBanner ==
    /\ Len(components) > 0
    /\ "x1" \in DOMAIN components[1].bbox
    /\ components[1].bbox.x1 - components[1].bbox.x0 > 400
    /\ components[1].bbox.y1 - components[1].bbox.y0 < 150

\* C13: the rules of is_potential_diagram apply in a fixed order: a line-heavy
\* block with few curves is rejected; otherwise a bounding box wider than 400
\* and shorter than 150 is rejected; otherwise three or more curves accept;
\* otherwise more than five shapes accept.  A rejection by the first or the
\* second rule is never overridden by the curve count or the shape count,
\* and the answer is a function of the shapes alone.
C13_RulePrecedence ==
    pc = "classify_done" =>
        /\ LineHeavy => ~is_diagram
        /\ (~LineHeavy /\ FirstBoxIsBanner) => ~is_diagram
        /\ (~LineHeavy /\ ~FirstBoxIsBanner /\ ManyCurves) => is_diagram
        /\ (~LineHeavy /\ ~FirstBoxIsBanner /\ ~ManyCurves) => (is_diagram = EnoughShapes)
        /\ is_diagram = is_potential_diagram(components)

\* A banner with three curves and more than five shapes has been rejected.
C13_Witness ==
    /\ pc = "classify_done"
    /\ ~LineHeavy /\ FirstBoxIsBanner /\ ManyCurves /\ EnoughShapes
    /\ ~is_diagram

\* The bounding box of a component: its rectangle, or its point.
BoxOf(s) ==
    IF "x1" \in DOMAIN s.bbox THEN s.bbox
    ELSE R(s.bbox.x, s.bbox.y, s.bbox.x, s.bbox.y)

\* The tight bounding box of the whole shape set.
AggregateBox ==
    LET bs == {BoxOf(components[i]) : i \in 1..Len(components)}
        Lo(S) == CHOOSE v \in S : \A w \in S : v <= w
        Hi(S) == CHOOSE v \in S : \A w \in S : v >= w
    IN  R(Lo({b.x0 : b \in bs}), Lo({b.y0 : b \in bs}),
          Hi({b.x1 : b \in bs}), Hi({b.y1 : b \in bs}))

AggregateIsBanner ==
    AggregateBox.x1 - AggregateBox.x0 > 400 /\ AggregateBox.y1 - AggregateBox.y0 < 150

\* C14: the wide-and-short rejection is decided on the aggregate bounding box
\* of the whole shape set, whatever the bounding box or the kind of the first
\* shape: a set that is not line-heavy is rejected when its aggregate box is
\* wider than 400 and shorter than 150, and is otherwise judged by its curve
\* count and its size.
C14_AggregateBoxDecides ==
    (pc = "classify_done" /\ components # <<>> /\ ~LineHeavy) =>
        is_diagram = (~AggregateIsBanner /\ (ManyCurves \/ EnoughShapes))

(***************************************************************************)
(* C15: first match wins                                                   *)
(***************************************************************************)
\* The indices of the merged rectangles the incoming rectangle qualifies for.
Qualifying(ms, rect, d) == {i \in 1..Len(ms) : Close(rect, ms[i], d)}
Lowest(S) == CHOOSE i \in S : \A j \in S : i <= j

\* C15: an incoming rectangle that qualifies for several merged rectangles
\* replaces only the one of lowest index by its union with it, the smallest
\* rectangle covering both; every other merged rectangle, their number and
\* their order are unchanged; when none qualifies it is appended at the end.
C15_FirstMatchTightUnion ==
    [][(pc = "merge" /\ pos' = pos + 1) =>
        LET rect == rects[pos + 1]
            Q    == Qualifying(merged, rect, threshold)
        IN  IF Q = {}
            THEN merged' = Append(merged, rect)
            ELSE /\ Len(merged') = Len(merged)
                 /\ merged'[Lowest(Q)] = BoundingBox(merged[Lowest(Q)], rect)
                 /\ \A i \in 1..Len(merged) : i # Lowest(Q) => merged'[i] = merged[i]]_vars

(***************************************************************************)
(* C16: a single greedy pass, not a fixed point                            *)
(***************************************************************************)
\* Two rectangles of rs still intersect or lie closer than d.
SomePairClose(rs, d) ==
    \E i \in 1..Len(rs) : \E j \in 1..Len(rs) : i < j /\ Close(rs[i], rs[j], d)

\* C16: merge_rects is not a fixed point.  For [(0,0,50,50), (70,0,100,50),
\* (55,0,100,50)] and d = 10 the output is [(0,0,100,50), (70,0,100,50)], two
\* rectangles that intersect; and whenever an output still holds two
\* rectangles that intersect or lie closer than d, running merge_rects on it
\* again with the same d returns a different, shorter sequence.
C16_NotAFixedPoint ==
    pc = "merge_done" =>
        /\ (threshold = 10 /\ rects = <<R(0, 0, 50, 50), R(70, 0, 100, 50), R(55, 0, 100, 50)>>)
               => (merged = <<R(0, 0, 100, 50), R(70, 0, 100, 50)>> /\ SomePairClose(merged, threshold))
        /\ SomePairClose(merged, threshold) =>
               /\ merge_rects(merged, threshold) # merged
               /\ Len(merge_rects(merged, threshold)) < Len(merged)

\* An output that still holds a mergeable pair, and that a second run shortens.
C16_Witness ==
    /\ pc = "merge_done"
    /\ SomePairClose(merged, threshold)
    /\ Len(merged) = 2
    /\ Len(merge_rects(merged, threshold)) = 1

(***************************************************************************)
(* C17: the merge neither loses nor invents area                           *)
(***************************************************************************)
Least(S) == CHOOSE v \in S : \A w \in S : v <= w
Greatest(S) == CHOOSE v \in S : \A w \in S : v >= w

\* The smallest rectangle covering every rectangle of the non-empty set S.
TightBox(S) ==
    R(Least({r.x0 : r \in S}), Least({r.y0 : r \in S}),
      Greatest({r.x1 : r \in S}), Greatest({r.y1 : r \in S}))

\* The ways of putting each of the first n inputs into exactly one of k
\* clusters, none left without a member, numbered by their first member.
Clusterings(n, k) ==
    {f \in [1..n -> 1..k] :
        /\ \A j \in 1..k : \E i \in 1..n : f[i] = j
        /\ \A i \in 1..n : \A j \in 1..(f[i] - 1) : \E h \in 1..(i - 1) : f[h] = j}

Members(f, j) == {i \in DOMAIN f : f[i] = j}
Merging == pc \in {"merge", "merge_done"}

\* C17: after any prefix of the input, every input seen so far lies
\* inside some merged rectangle, the inputs fall into clusters with each input
\* in exactly one, every merged rectangle is the tight bounding box of its
\* non-empty cluster, and there are no more merged rectangles than inputs
\* processed (none for an empty input).
C17_TightBoxOfCluster ==
    Merging =>
        /\ Len(merged) <= pos
        /\ (Len(rects) = 0 => merged = <<>>)
        /\ \A i \in 1..pos : \E j \in 1..Len(merged) : Covers(merged[j], rects[i])
        /\ \E f \in Clusterings(pos, Len(merged)) :
               \A j \in 1..Len(merged) :
                   merged[j] = TightBox({rects[i] : i \in Members(f, j)})

(***************************************************************************)
(* C18: the header and footer exclusion survives merging                   *)
(***************************************************************************)
\* Rectangle r lies in the body band of a page of height h:
\* y0 >= 0.10 * h and y1 <= 0.85 * h.
InBody(r, h) == 10 * r.y0 >= h /\ 100 * r.y1 <= 85 * h

\* C18: every region save_diagram_from_pdf obtains from merge_rects on a page
\* of height H has y0 >= 0.10 * H and y1 <= 0.85 * H: the candidates handed to
\* merge_rects have, so has every merged rectangle at each step of the merge,
\* and so has every region of the result.
C18_MergedRegionsInBody ==
    page.number # 0 =>
        /\ (pc = "merge" => \A r \in Range(rects) \cup Range(merged) : InBody(r, page.height))
        /\ \A r \in Range(all_diagrams) : InBody(r, page.height)

\* A region merged from a drawing and an image of the body band, on a page
\* that also has a diagram-like drawing in the footer band.
C18_Witness ==
    /\ pc = "page_done"
    /\ page.height = 1000
    /\ all_diagrams = <<R(50, 200, 750, 750)>>
    /\ rects = <<R(50, 200, 150, 300), R(100, 250, 750, 750)>>
    /\ \E i \in 1..Len(page.drawings) :
          /\ page.drawings[i].rect = R(50, 900, 150, 950)
          /\ is_potential_diagram(Components(page.drawings[i].items))

====
